---- MODULE Spec2Model ----
(***************************************************************************)
(* Gomoku (five-in-a-row) engine of ergou-yu/gomoku-game.                  *)
(*                                                                         *)
(* The module models                                                       *)
(*   - the board primitives of gameLogic.ts,                               *)
(*   - the decision procedure GomokuAI.getNextMove of AIPlayer.ts,         *)
(*   - the search engine SuperGomokuAI of SuperAI.ts,                      *)
(*   - the self-play trainer AITrainingSystem of AITrainingSystem.ts.      *)
(*                                                                         *)
(* A board is a function row -> col -> Stone with Stone in 0..2, exactly   *)
(* the Stone[][] of the source.  A move is a record [row, col]; the null   *)
(* of the source is the record Null.                                       *)
(***************************************************************************)
EXTENDS Integers, Sequences, FiniteSets, TLC

\* gameLogic.ts:9
BOARD_SIZE == 15

Idx == 0..(BOARD_SIZE - 1)

\* null of the source, as a move-shaped value
Null == [row |-> -1, col |-> -1]

Mv(r, c) == [row |-> r, col |-> c]

\* the four line orientations, in the order of checkWin / AIPlayer.ts
directions == << <<0, 1>>, <<1, 0>>, <<1, 1>>, <<1, -1>> >>

InRange(r, c) == r >= 0 /\ r < BOARD_SIZE /\ c >= 0 /\ c < BOARD_SIZE

createEmptyBoard == [r \in Idx |-> [c \in Idx |-> 0]]

isValidMove(board, row, col) == InRange(row, col) /\ board[row][col] = 0

\* one of the two while loops of checkWin: the number of consecutive cells
\* holding `player`, starting at (r, c) and stepping by (dx, dy)
RECURSIVE RunLen(_, _, _, _, _, _)
RunLen(board, r, c, dx, dy, player) ==
    IF InRange(r, c) /\ board[r][c] = player
    THEN 1 + RunLen(board, r + dx, c + dy, dx, dy, player)
    ELSE 0

\* LineCount without the run behind the cell
LineCountForward(board, row, col, dx, dy, player) ==
    1 + RunLen(board, row + dx, col + dy, dx, dy, player)

\* count of checkWin for one direction: 1 for the cell itself (whatever it
\* holds) plus the two runs beside it
LineCount(board, row, col, dx, dy, player) ==
    1 + RunLen(board, row + dx, col + dy, dx, dy, player)
      + RunLen(board, row - dx, col - dy, -dx, -dy, player)

checkWin(board, row, col, player) ==
    IF player = 0 THEN FALSE
    ELSE \E d \in 1..4 :
            LineCount(board, row, col, directions[d][1], directions[d][2], player) >= 5

isBoardFull(board) == \A r \in Idx : \A c \in Idx : board[r][c] # 0

cloneBoard(board) == [r \in Idx |-> [c \in Idx |-> board[r][c]]]

\* makeMove without the check of isValidMove for the cell being empty
makeMoveUnchecked(board, row, col, player) ==
    IF ~InRange(row, col) THEN board
    ELSE [cloneBoard(board) EXCEPT ![row][col] = player]

makeMove(board, row, col, player) ==
    IF ~isValidMove(board, row, col) THEN board
    ELSE [cloneBoard(board) EXCEPT ![row][col] = player]

\* the turn staying with the side that moved
sameSideAgain(currentPlayer) == currentPlayer

getNextPlayer(currentPlayer) == IF currentPlayer = 1 THEN 2 ELSE 1

-----------------------------------------------------------------------------
(***************************************************************************)
(* GomokuAI (AIPlayer.ts).  Operators that write to the board buffer       *)
(* return the buffer they leave behind together with their result, so the  *)
(* place / check / undo sequence of the source is part of the model.       *)
(***************************************************************************)

NCells == BOARD_SIZE * BOARD_SIZE

RowOf(k) == k \div BOARD_SIZE
ColOf(k) == k % BOARD_SIZE

Abs(x) == IF x < 0 THEN -x ELSE x
Min(a, b) == IF a < b THEN a ELSE b
Max(a, b) == IF a > b THEN a ELSE b

calculateMoveCount(board) ==
    Cardinality({k \in 0..(NCells - 1) : board[RowOf(k)][ColOf(k)] # 0})

isEmptyBoard(board) == \A r \in Idx : \A c \in Idx : board[r][c] = 0

\* A value computed once and read several times is handed on as the argument
\* of the operator that reads it; orElse is the "if (found) return found"
\* of the scanning loops.
orElse(found, rest) == IF found # Null THEN found ELSE rest

\* The run of `player` stones through the stone at (row, col) along (dx, dy),
\* from the lengths fwd and bwd of its two arms: its length, and the cell
\* beyond either end (the loops of findActiveThreeThreat and
\* findRushFourThreat).
runRecord(row, col, dx, dy, fwd, bwd) ==
    [consecutive |-> 1 + fwd + bwd,
     frontRow |-> row - (bwd + 1) * dx, frontCol |-> col - (bwd + 1) * dy,
     backRow  |-> row + (fwd + 1) * dx, backCol  |-> col + (fwd + 1) * dy]

RunThrough(board, row, col, dx, dy, player) ==
    runRecord(row, col, dx, dy,
              RunLen(board, row + dx, col + dy, dx, dy, player),
              RunLen(board, row - dx, col - dy, -dx, -dy, player))

\* findRushFourThreat for one run: a run of four or more with an empty end,
\* front end first
rushFourOf(board, run) ==
    IF run.consecutive >= 4 /\ isValidMove(board, run.frontRow, run.frontCol)
    THEN Mv(run.frontRow, run.frontCol)
    ELSE IF run.consecutive >= 4 /\ isValidMove(board, run.backRow, run.backCol)
    THEN Mv(run.backRow, run.backCol)
    ELSE Null

\* the direction loop of findRushFourThreat for the stone at (row, col), from
\* direction d on
RECURSIVE rushFourDirs(_, _, _, _, _)
rushFourDirs(board, player, row, col, d) ==
    IF d > 4 THEN Null
    ELSE orElse(rushFourOf(board, RunThrough(board, row, col, directions[d][1],
                                             directions[d][2], player)),
                rushFourDirs(board, player, row, col, d + 1))

\* inner (col) and outer (row) loop of findRushFourThreat
RECURSIVE rushFourCols(_, _, _, _)
rushFourCols(board, player, row, col) ==
    IF col >= BOARD_SIZE THEN Null
    ELSE orElse(IF board[row][col] # player THEN Null
                ELSE rushFourDirs(board, player, row, col, 1),
                rushFourCols(board, player, row, col + 1))

RECURSIVE rushFourRows(_, _, _)
rushFourRows(board, player, row) ==
    IF row >= BOARD_SIZE THEN Null
    ELSE orElse(rushFourCols(board, player, row, 0), rushFourRows(board, player, row + 1))

findRushFourThreat(board, player) == rushFourRows(board, player, 0)

RECURSIVE winScanCols(_, _, _, _)
\* winScanCols without the removal of the stone that wins
winScanColsKeepStone(board, player, row, col) ==
    IF col >= BOARD_SIZE THEN [move |-> Null, board |-> board]
    ELSE IF isValidMove(board, row, col)
    THEN IF checkWin([board EXCEPT ![row][col] = player], row, col, player)
         THEN [move |-> Mv(row, col), board |-> [board EXCEPT ![row][col] = player]]
         ELSE winScanCols(board, player, row, col + 1)
    ELSE winScanCols(board, player, row, col + 1)

\* The inner loop of findWinningMove over the cells of one row, from col on:
\* place, checkWin, undo.
winScanCols(board, player, row, col) ==
    IF col >= BOARD_SIZE THEN [move |-> Null, board |-> board]
    ELSE IF isValidMove(board, row, col)
    THEN LET placed == [board EXCEPT ![row][col] = player]
             undone == [placed EXCEPT ![row][col] = 0]
         IN  IF checkWin(placed, row, col, player)
             THEN [move |-> Mv(row, col), board |-> undone]
             ELSE winScanCols(undone, player, row, col + 1)
    ELSE winScanCols(board, player, row, col + 1)

\* the outer loop of findWinningMove over the rows; scan is the outcome of
\* the row before
RECURSIVE winScanRows(_, _, _)
winScanFrom(scan, player, row) ==
    IF scan.move # Null THEN scan ELSE winScanRows(scan.board, player, row)

winScanRows(board, player, row) ==
    IF row >= BOARD_SIZE THEN [move |-> Null, board |-> board]
    ELSE winScanFrom(winScanCols(board, player, row, 0), player, row + 1)

\* the end of findWinningMove: the move of the scan, else findRushFourThreat
winScanOrRushFour(scan, player) ==
    IF scan.move # Null THEN scan
    ELSE [move |-> findRushFourThreat(scan.board, player), board |-> scan.board]

findWinningMove(board, player) ==
    winScanOrRushFour(winScanRows(board, player, 0), player)

\* activeThreeOf without the tests that an end is an empty cell of the board
activeThreeOfUnchecked(board, coin, run) ==
    IF run.consecutive # 3 THEN Null
    ELSE IF coin THEN Mv(run.frontRow, run.frontCol) ELSE Mv(run.backRow, run.backCol)

\* findActiveThreeThreat for one run: a run of exactly three with an empty
\* end.  `coin` is the outcome of Math.random() < 0.5.
activeThreeOf(board, coin, run) ==
    IF run.consecutive # 3 THEN Null
    ELSE IF /\ isValidMove(board, run.frontRow, run.frontCol)
            /\ isValidMove(board, run.backRow, run.backCol)
    THEN IF coin THEN Mv(run.frontRow, run.frontCol) ELSE Mv(run.backRow, run.backCol)
    ELSE IF isValidMove(board, run.frontRow, run.frontCol)
    THEN Mv(run.frontRow, run.frontCol)
    ELSE IF isValidMove(board, run.backRow, run.backCol)
    THEN Mv(run.backRow, run.backCol)
    ELSE Null

RECURSIVE activeThreeDirs(_, _, _, _, _, _)
activeThreeDirs(board, player, coin, row, col, d) ==
    IF d > 4 THEN Null
    ELSE orElse(activeThreeOf(board, coin, RunThrough(board, row, col, directions[d][1],
                                                      directions[d][2], player)),
                activeThreeDirs(board, player, coin, row, col, d + 1))

RECURSIVE activeThreeCols(_, _, _, _, _)
activeThreeCols(board, player, coin, row, col) ==
    IF col >= BOARD_SIZE THEN Null
    ELSE orElse(IF board[row][col] # player THEN Null
                ELSE activeThreeDirs(board, player, coin, row, col, 1),
                activeThreeCols(board, player, coin, row, col + 1))

RECURSIVE activeThreeRows(_, _, _, _)
activeThreeRows(board, player, coin, row) ==
    IF row >= BOARD_SIZE THEN Null
    ELSE orElse(activeThreeCols(board, player, coin, row, 0),
                activeThreeRows(board, player, coin, row + 1))

findActiveThreeThreat(board, player, coin) == activeThreeRows(board, player, coin, 0)

\* one side of evaluateLine: 1 when the cell that stops the run of length n
\* beside (row, col) is empty
openEndAfter(board, row, col, dx, dy, n) ==
    IF isValidMove(board, row + (n + 1) * dx, col + (n + 1) * dy) THEN 1 ELSE 0

OpenEnd(board, row, col, dx, dy, player) ==
    openEndAfter(board, row, col, dx, dy,
                 RunLen(board, row + dx, col + dy, dx, dy, player))

\* the score table at the end of evaluateLine
lineScore(consecutive, openEnds) ==
    CASE consecutive = 2 -> openEnds * 10
      [] consecutive = 3 -> openEnds * 50
      [] consecutive = 4 -> openEnds * 200
      [] consecutive = 5 -> 1000
      [] OTHER -> 0

evaluateLine(board, row, col, dx, dy, player) ==
    lineScore(LineCount(board, row, col, dx, dy, player),
              OpenEnd(board, row, col, dx, dy, player)
              + OpenEnd(board, row, col, -dx, -dy, player))

evaluatePosition(board, row, col, player) ==
    (14 - (Abs(row - 7) + Abs(col - 7))) * 2
    + evaluateLine(board, row, col, directions[1][1], directions[1][2], player)
    + evaluateLine(board, row, col, directions[2][1], directions[2][2], player)
    + evaluateLine(board, row, col, directions[3][1], directions[3][2], player)
    + evaluateLine(board, row, col, directions[4][1], directions[4][2], player)

\* "if (score > bestScore)" of findBestAttackMove; best = [score, move]
\* the comparison of findBestAttackMove taking a cell of equal score too
betterOfOrEqual(best, score, row, col) ==
    IF score >= best.score THEN [score |-> score, move |-> Mv(row, col)] ELSE best

betterOf(best, score, row, col) ==
    IF score > best.score THEN [score |-> score, move |-> Mv(row, col)] ELSE best

\* the loops of findBestAttackMove, carrying the best score and move so far
RECURSIVE attackCols(_, _, _, _, _)
attackCols(board, player, row, col, best) ==
    IF col >= BOARD_SIZE THEN best
    ELSE IF isValidMove(board, row, col)
    THEN attackCols(board, player, row, col + 1,
                    betterOf(best, evaluatePosition(board, row, col, player), row, col))
    ELSE attackCols(board, player, row, col + 1, best)

\* (no score is below the initial -1: reading best.score makes the result of
\* a row a value before the next row is scanned)
RECURSIVE attackRows(_, _, _, _)
attackRows(board, player, row, best) ==
    IF row >= BOARD_SIZE \/ best.score < -1 THEN best
    ELSE attackRows(board, player, row + 1, attackCols(board, player, row, 0, best))

findBestAttackMove(board, player) ==
    attackRows(board, player, 0, [score |-> -1, move |-> Null]).move

-----------------------------------------------------------------------------
(***************************************************************************)
(* PatternRecognition and ThreatAnalysis (SuperAI.ts).                     *)
(***************************************************************************)

\* SuperAI.ts:14-52; in a pattern 1 is an own stone, 2 an opposing stone,
\* 0 an empty cell
patFIVE == << <<1, 1, 1, 1, 1>> >>
patFOUR == << <<0, 1, 1, 1, 1, 0>> >>
patBLOCKED_FOUR == << <<2, 1, 1, 1, 1, 0>>, <<0, 1, 1, 1, 1, 2>>, <<1, 1, 0, 1, 1>>,
                      <<1, 0, 1, 1, 1>>, <<1, 1, 1, 0, 1>> >>
patTHREE == << <<0, 0, 1, 1, 1, 0, 0>>, <<0, 1, 1, 0, 1, 0>>, <<0, 1, 0, 1, 1, 0>> >>
patBLOCKED_THREE == << <<2, 1, 1, 1, 0, 0>>, <<0, 0, 1, 1, 1, 2>>, <<1, 1, 0, 1, 0>>,
                       <<1, 0, 1, 1, 0>>, <<0, 1, 1, 0, 1>> >>
patTWO == << <<0, 0, 1, 1, 0, 0>>, <<0, 1, 0, 1, 0>> >>

\* the window of `length` cells centred on (row, col); a cell off the board
\* reads as the stone 2
extractLine(board, row, col, dx, dy, length) ==
    LET start == length \div 2
    IN  [n \in 1..(2 * start + 1) |->
            LET r == row + (n - 1 - start) * dx
                c == col + (n - 1 - start) * dy
            IN  IF InRange(r, c) THEN board[r][c] ELSE 2]

matchesPattern(line, pattern, player) ==
    IF Len(line) < Len(pattern) THEN FALSE
    ELSE \E i \in 0..(Len(line) - Len(pattern)) :
            \A j \in 1..Len(pattern) :
                /\ (pattern[j] = 1 => line[i + j] = player)
                /\ (pattern[j] = 2 => line[i + j] = 3 - player)
                /\ (pattern[j] = 0 => line[i + j] = 0)

matchesAnyPattern(line, patterns, player) ==
    \E n \in 1..Len(patterns) : matchesPattern(line, patterns[n], player)

\* matchesPattern given the one row of the table in place of the table
onlyRowOf(table) == table[1]

\* recognizePattern hands matchesPattern the whole FIVE table and the whole
\* FOUR table where one pattern is expected (SuperAI.ts:69, 73): the
\* "pattern" is then the list of the table's rows, and a row, being an array,
\* is identical (===) to none of the cell values 0, 1, 2
rowsAsCells(table) == [n \in 1..Len(table) |-> -1]

\* the cascade with the check of FOUR ahead of the check of FIVE
classifyLineFourFirst(line, player) ==
    IF matchesPattern(line, rowsAsCells(patFOUR), player)
    THEN [type |-> "FOUR", score |-> 10000, threat |-> 4]
    ELSE IF matchesPattern(line, rowsAsCells(patFIVE), player)
    THEN [type |-> "FIVE", score |-> 100000, threat |-> 5]
    ELSE [type |-> "NONE", score |-> 0, threat |-> 0]

\* the cascade of recognizePattern over the extracted line
classifyLine(line, player) ==
    IF matchesPattern(line, rowsAsCells(patFIVE), player)
    THEN [type |-> "FIVE", score |-> 100000, threat |-> 5]
    ELSE IF matchesPattern(line, rowsAsCells(patFOUR), player)
    THEN [type |-> "FOUR", score |-> 10000, threat |-> 4]
    ELSE IF matchesAnyPattern(line, patBLOCKED_FOUR, player)
    THEN [type |-> "BLOCKED_FOUR", score |-> 1000, threat |-> 3]
    ELSE IF matchesAnyPattern(line, patTHREE, player)
    THEN [type |-> "THREE", score |-> 1000, threat |-> 2]
    ELSE IF matchesAnyPattern(line, patBLOCKED_THREE, player)
    THEN [type |-> "BLOCKED_THREE", score |-> 100, threat |-> 1]
    ELSE IF matchesAnyPattern(line, patTWO, player)
    THEN [type |-> "TWO", score |-> 10, threat |-> 0]
    ELSE [type |-> "NONE", score |-> 0, threat |-> 0]

recognizePattern(board, row, col, dx, dy, player) ==
    classifyLine(extractLine(board, row, col, dx, dy, 9), player)

\* the direction order of ThreatAnalysis.evaluatePosition and evaluatePatterns
threatDirections == << <<1, 0>>, <<0, 1>>, <<1, 1>>, <<1, -1>> >>

\* totalScore and maxThreat of ThreatAnalysis.evaluatePosition from the
\* patterns of the four directions
threatTotals(p1, p2, p3, p4) ==
    [score  |-> p1.score + p2.score + p3.score + p4.score,
     threat |-> Max(Max(p1.threat, p2.threat), Max(p3.threat, p4.threat))]

\* ThreatAnalysis.evaluatePosition: summed score and greatest threat level of
\* the four directions (the list of pattern names is not read by any caller)
threatEvaluatePosition(board, row, col, player) ==
    threatTotals(recognizePattern(board, row, col, 1, 0, player),
                 recognizePattern(board, row, col, 0, 1, player),
                 recognizePattern(board, row, col, 1, 1, player),
                 recognizePattern(board, row, col, 1, -1, player))

\* the cells of the board in the order of the row / col double loops
cellsInOrder == [k \in 1..NCells |-> Mv(RowOf(k - 1), ColOf(k - 1))]

\* Array.prototype.sort with the comparator (a, b) => b.priority - a.priority:
\* the sort is stable, and a priority is a threat level in 0..5
sortByPriority(moves) ==
    SelectSeq(moves, LAMBDA m : m.priority = 5) \o SelectSeq(moves, LAMBDA m : m.priority = 4)
    \o SelectSeq(moves, LAMBDA m : m.priority = 3) \o SelectSeq(moves, LAMBDA m : m.priority = 2)
    \o SelectSeq(moves, LAMBDA m : m.priority = 1) \o SelectSeq(moves, LAMBDA m : m.priority <= 0)

\* the body of analyzeThreats' double loop for one cell: the two evaluations
\* of an empty cell
scanCell(board, player, opponent, row, col) ==
    IF board[row][col] # 0
    THEN [row |-> row, col |-> col, empty |-> FALSE,
          my  |-> [score |-> 0, threat |-> 0], opp |-> [score |-> 0, threat |-> 0]]
    ELSE [row |-> row, col |-> col, empty |-> TRUE,
          my  |-> threatEvaluatePosition(board, row, col, player),
          opp |-> threatEvaluatePosition(board, row, col, opponent)]

\* the entries of myThreats, opponentThreats and criticalMoves
asMyThreat(e) == [row |-> e.row, col |-> e.col, score |-> e.my.score, threat |-> e.my.threat]

asOpponentThreat(e) ==
    [row |-> e.row, col |-> e.col, score |-> e.opp.score, threat |-> e.opp.threat]

asCriticalMove(e) ==
    [row |-> e.row, col |-> e.col, priority |-> Max(e.my.threat, e.opp.threat)]

mapSeq(Op(_), seq) == [n \in 1..Len(seq) |-> Op(seq[n])]

\* the three lists analyzeThreats pushes to, from the evaluated cells in scan
\* order
threatLists(scanned) ==
    [myThreats |->
        mapSeq(asMyThreat, SelectSeq(scanned, LAMBDA e : e.empty /\ e.my.score > 100)),
     opponentThreats |->
        mapSeq(asOpponentThreat, SelectSeq(scanned, LAMBDA e : e.empty /\ e.opp.score > 100)),
     criticalMoves |->
        sortByPriority(mapSeq(asCriticalMove,
            SelectSeq(scanned, LAMBDA e : e.empty /\ Max(e.my.threat, e.opp.threat) > 0)))]

\* the evaluated cells as a sequence of values
scanAll(board, player, opponent) ==
    [k \in 1..NCells |->
        scanCell(board, player, opponent, cellsInOrder[k].row, cellsInOrder[k].col)]

analyzeThreats(board, player) ==
    threatLists(scanAll(board, player, IF player = 1 THEN 2 ELSE 1))

-----------------------------------------------------------------------------
(***************************************************************************)
(* The rest of GomokuAI: the scored fallback and the opening book          *)
(* (ChessDatabase.ts).                                                     *)
(***************************************************************************)

\* validMoves of findHighestScoredMove before the sort: the empty cells in
\* scan order
validMovesOf(board) ==
    SelectSeq(cellsInOrder, LAMBDA m : isValidMove(board, m.row, m.col))

\* greatest of a non-empty set of scores
maxOf(scores) == CHOOSE x \in scores : \A y \in scores : y <= x

\* topMoves of findHighestScoredMove: after the stable sort by descending
\* score, the entries whose score equals the first one's are the cells of
\* greatest score, in scan order
topMovesAmong(scored) ==
    IF Len(scored) = 0 THEN << >>
    ELSE SelectSeq(scored,
            LAMBDA m : m.score = maxOf({scored[n].score : n \in 1..Len(scored)}))

scoredMoves(board, player, validMoves) ==
    [n \in 1..Len(validMoves) |->
        [row |-> validMoves[n].row, col |-> validMoves[n].col,
         score |-> evaluatePosition(board, validMoves[n].row, validMoves[n].col, player)]]

topMovesOf(board, player) == topMovesAmong(scoredMoves(board, player, validMovesOf(board)))

\* CLASSIC_OPENINGS, ChessDatabase.ts:43-84 (moves and followUp)
CLASSIC_OPENINGS ==
    << [moves |-> << Mv(7, 7) >>,
        followUp |-> << Mv(6, 6), Mv(8, 8), Mv(6, 8), Mv(8, 6) >>],
       [moves |-> << Mv(7, 7), Mv(7, 8) >>,
        followUp |-> << Mv(7, 6), Mv(7, 9), Mv(6, 7), Mv(8, 7) >>],
       [moves |-> << Mv(7, 7), Mv(6, 6) >>,
        followUp |-> << Mv(8, 8), Mv(5, 5), Mv(6, 7), Mv(7, 6) >>],
       [moves |-> << Mv(7, 7), Mv(6, 8) >>,
        followUp |-> << Mv(8, 6), Mv(5, 9), Mv(6, 7), Mv(7, 8) >>],
       [moves |-> << Mv(7, 7), Mv(8, 7) >>,
        followUp |-> << Mv(6, 7), Mv(9, 7), Mv(7, 6), Mv(7, 8) >>] >>

matchesOpening(board, opening, moveCount) ==
    \A i \in 0..(Min(moveCount, Len(opening.moves)) - 1) :
        board[opening.moves[i + 1].row][opening.moves[i + 1].col]
            = (IF i % 2 = 0 THEN 1 ELSE 2)

\* openingMoveOf without the test that the follow-up is a valid move
openingMoveOfUnchecked(board, opening, moveCount, nextMoveIndex) ==
    IF /\ matchesOpening(board, opening, moveCount)
       /\ nextMoveIndex >= 0 /\ nextMoveIndex < Len(opening.followUp)
    THEN opening.followUp[nextMoveIndex + 1]
    ELSE Null

\* the body of getOpeningMove's loop for one opening: its follow-up move when
\* the opening matches and the move is valid
openingMoveOf(board, opening, moveCount, nextMoveIndex) ==
    IF /\ matchesOpening(board, opening, moveCount)
       /\ nextMoveIndex >= 0 /\ nextMoveIndex < Len(opening.followUp)
       /\ isValidMove(board, opening.followUp[nextMoveIndex + 1].row,
                             opening.followUp[nextMoveIndex + 1].col)
    THEN opening.followUp[nextMoveIndex + 1]
    ELSE Null

\* the loop of getOpeningMove over the openings, from opening n on
RECURSIVE openingScan(_, _, _)
openingScan(board, moveCount, n) ==
    IF n > Len(CLASSIC_OPENINGS) THEN Null
    ELSE orElse(openingMoveOf(board, CLASSIC_OPENINGS[n], moveCount,
                              Min(moveCount, Len(CLASSIC_OPENINGS[n].followUp) - 1)),
                openingScan(board, moveCount, n + 1))

getOpeningMove(board, moveCount) ==
    IF moveCount = 0 THEN Mv(7, 7) ELSE openingScan(board, moveCount, 1)

-----------------------------------------------------------------------------
(***************************************************************************)
(* SuperGomokuAI (SuperAI.ts): the helpers of getBestMove.                 *)
(***************************************************************************)

\* Infinity of the source: above every evaluation (at most 225 stones with
\* four patterns of 100000 each)
Infinity == 1000000000

opponentOf(player) == IF player = 1 THEN 2 ELSE 1

\* SuperAI.ts:252
maxDepthOf(difficulty) ==
    IF difficulty = "easy" THEN 2 ELSE IF difficulty = "medium" THEN 4 ELSE 6

\* SuperGomokuAI.findWinningMove: place, checkWin, undo over every empty cell
RECURSIVE superWinCols(_, _, _, _)
superWinCols(board, player, row, col) ==
    IF col >= BOARD_SIZE THEN [move |-> Null, board |-> board]
    ELSE IF board[row][col] = 0
    THEN LET placed == [board EXCEPT ![row][col] = player]
             undone == [placed EXCEPT ![row][col] = 0]
         IN  IF checkWin(placed, row, col, player)
             THEN [move |-> Mv(row, col), board |-> undone]
             ELSE superWinCols(undone, player, row, col + 1)
    ELSE superWinCols(board, player, row, col + 1)

RECURSIVE superWinRows(_, _, _)
superWinFrom(scan, player, row) ==
    IF scan.move # Null THEN scan ELSE superWinRows(scan.board, player, row)

superWinRows(board, player, row) ==
    IF row >= BOARD_SIZE THEN [move |-> Null, board |-> board]
    ELSE superWinFrom(superWinCols(board, player, row, 0), player, row + 1)

superFindWinningMove(board, player) == superWinRows(board, player, 0)

\* the test of findTacticalMove on the threats after the stone was placed:
\* at least two own threats of level 3 or more
isDoubleThreat(newThreats) ==
    Len(SelectSeq(newThreats.myThreats, LAMBDA t : t.threat >= 3)) >= 2

\* The loop of findTacticalMove over criticalMoves.slice(0, 10), from entry n
\* on: place, analyzeThreats, undo.
RECURSIVE tacticalScan(_, _, _, _)
tacticalScan(board, player, moves, n) ==
    IF n > Min(Len(moves), 10) THEN [move |-> Null, board |-> board]
    ELSE LET placed == [board EXCEPT ![moves[n].row][moves[n].col] = player]
             undone == [placed EXCEPT ![moves[n].row][moves[n].col] = 0]
         IN  IF isDoubleThreat(analyzeThreats(placed, player))
             THEN [move |-> Mv(moves[n].row, moves[n].col), board |-> undone]
             ELSE tacticalScan(undone, player, moves, n + 1)

findTacticalMove(board, player, threats) ==
    tacticalScan(board, player, threats.criticalMoves, 1)

isRelevantPosition(board, row, col) ==
    \E r \in Max(0, row - 2)..Min(BOARD_SIZE - 1, row + 2) :
        \E c \in Max(0, col - 2)..Min(BOARD_SIZE - 1, col + 2) : board[r][c] # 0

\* row and col are parameters of the source that its body never reads
quickEvaluate(board, row, col, player) ==
    Len(analyzeThreats(board, player).myThreats) * 100
    - Len(analyzeThreats(board, opponentOf(player)).opponentThreats) * 80

\* Array.prototype.sort with the comparator (a, b) => b.score - a.score: a
\* stable sort by descending score.  Entry n moves to the position given by
\* the number of entries that sort before it.
sortByScore(moves) ==
    LET before(n) == Cardinality({m \in 1..Len(moves) :
                        \/ moves[m].score > moves[n].score
                        \/ (moves[m].score = moves[n].score /\ m < n)})
    IN  [p \in 1..Len(moves) |-> moves[CHOOSE n \in 1..Len(moves) : before(n) = p - 1]]

\* the candidates with the score all of them get: quickEvaluate reads neither
\* row nor col, so one evaluation serves every candidate of the call
scoredCandidates(cells, score) ==
    [n \in 1..Len(cells) |-> [row |-> cells[n].row, col |-> cells[n].col, score |-> score]]

\* the sorted candidate list from the relevant empty cells in scan order
candidatesAmong(board, player, cells) ==
    IF Len(cells) = 0 THEN << >>
    ELSE sortByScore(scoredCandidates(cells,
                        quickEvaluate(board, cells[1].row, cells[1].col, player)))

generateCandidateMoves(board, player) ==
    candidatesAmong(board, player,
        SelectSeq(cellsInOrder,
            LAMBDA m : board[m.row][m.col] = 0 /\ isRelevantPosition(board, m.row, m.col)))

\* candidates.slice(0, width)
sliceTo(seq, width) == SubSeq(seq, 1, Min(Len(seq), width))

\* the score += ... of a row / col double loop: the sum over the cells of a
\* row from col on, and over the rows from row on, of gain[row][col]
RECURSIVE sumCols(_, _, _)
sumCols(gain, row, col) ==
    IF col >= BOARD_SIZE THEN 0 ELSE gain[row][col] + sumCols(gain, row, col + 1)

RECURSIVE sumRows(_, _)
sumRows(gain, row) ==
    IF row >= BOARD_SIZE THEN 0 ELSE sumCols(gain, row, 0) + sumRows(gain, row + 1)

evaluatePositionalAdvantage(board, player) ==
    sumRows([row \in Idx |-> [col \in Idx |->
                IF board[row][col] = player
                THEN Max(0, 14 - (Abs(row - BOARD_SIZE \div 2) + Abs(col - BOARD_SIZE \div 2)))
                ELSE 0]], 0)

\* the contribution of one cell to evaluatePatterns
patternGain(board, row, col, player) ==
    IF board[row][col] = player
    THEN recognizePattern(board, row, col, 1, 0, player).score
         + recognizePattern(board, row, col, 0, 1, player).score
         + recognizePattern(board, row, col, 1, 1, player).score
         + recognizePattern(board, row, col, 1, -1, player).score
    ELSE 0

evaluatePatterns(board, player) ==
    sumRows([row \in Idx |-> [col \in Idx |-> patternGain(board, row, col, player)]], 0)

\* board.map(row => row.join('')).join(''): the digits of the cells, row by row
getBoardKey(board) == [k \in 1..NCells |-> board[RowOf(k - 1)][ColOf(k - 1)]]

\* evaluationCache.set(boardKey, score); return score
cacheSet(cache, boardKey, score) ==
    [score |-> score, cache |-> (boardKey :> score) @@ cache]

\* evaluateBoard reads and fills this.evaluationCache; the result carries the
\* value returned and the cache afterwards
evaluateBoardAt(board, player, cache, boardKey) ==
    IF boardKey \in DOMAIN cache
    THEN [score |-> cache[boardKey], cache |-> cache]
    ELSE cacheSet(cache, boardKey,
                  evaluatePositionalAdvantage(board, player)
                  + (evaluatePatterns(board, player)
                     - evaluatePatterns(board, opponentOf(player))))

evaluateBoard(board, player, cache) ==
    evaluateBoardAt(board, player, cache, getBoardKey(board))

-----------------------------------------------------------------------------
(***************************************************************************)
(* GomokuAI.getNextMove, AIPlayer.ts:81-153.  The rules before the search   *)
(* engine are one step; the one random draw they can make (the side on     *)
(* which an open three is blocked) makes the step's outcome a set.         *)
(***************************************************************************)

\* An outcome of the rules up to the opening book is the move returned (Null
\* when none of them returns), the rule that returned it, and the board
\* buffer afterwards.

\* from the open-three rule on; aiAttackMove and openingMove are the results
\* of the two rules after it
\* rulesFromThree with the attack rule ahead of the open-three rule
rulesFromThreeAttackFirst(board, moveCount, opponentThreeMove, aiAttackMove, openingMove) ==
    IF aiAttackMove # Null
    THEN [move |-> aiAttackMove, rule |-> "attack", board |-> board]
    ELSE IF opponentThreeMove # Null
    THEN [move |-> opponentThreeMove, rule |-> "three", board |-> board]
    ELSE [move |-> Null, rule |-> "none", board |-> board]

rulesFromThree(board, moveCount, opponentThreeMove, aiAttackMove, openingMove) ==
    IF opponentThreeMove # Null
    THEN [move |-> opponentThreeMove, rule |-> "three", board |-> board]
    ELSE IF aiAttackMove # Null
    THEN [move |-> aiAttackMove, rule |-> "attack", board |-> board]
    ELSE IF /\ moveCount < 10
            /\ openingMove # Null
            /\ isValidMove(board, openingMove.row, openingMove.col)
    THEN [move |-> openingMove, rule |-> "opening", board |-> board]
    ELSE [move |-> Null, rule |-> "none", board |-> board]

\* coins holds the values the draw Math.random() < 0.5 can take
rulesAfterWins(board, aiPlayer, coins, moveCount, aiAttackMove, openingMove) ==
    {rulesFromThree(board, moveCount,
                    findActiveThreeThreat(board, IF aiPlayer = 1 THEN 2 ELSE 1, coin),
                    aiAttackMove, openingMove) : coin \in coins}

\* rulesFromBlock without the return of the opponent's winning cell
rulesFromBlockSkipped(aiPlayer, coins, moveCount, opponentWinMove) ==
    rulesAfterWins(opponentWinMove.board, aiPlayer, coins, moveCount,
                   findBestAttackMove(opponentWinMove.board, aiPlayer),
                   getOpeningMove(opponentWinMove.board, moveCount))

\* from the result of the opponent's win scan on
rulesFromBlock(aiPlayer, coins, moveCount, opponentWinMove) ==
    IF opponentWinMove.move # Null
    THEN {[move |-> opponentWinMove.move, rule |-> "block", board |-> opponentWinMove.board]}
    ELSE rulesAfterWins(opponentWinMove.board, aiPlayer, coins, moveCount,
                        findBestAttackMove(opponentWinMove.board, aiPlayer),
                        getOpeningMove(opponentWinMove.board, moveCount))

\* rulesFromWin without the return of the own winning cell
rulesFromWinSkipped(aiPlayer, coins, moveCount, aiWinMove) ==
    rulesFromBlock(aiPlayer, coins, moveCount,
                   findWinningMove(aiWinMove.board, IF aiPlayer = 1 THEN 2 ELSE 1))

\* from the result of the own win scan on
rulesFromWin(aiPlayer, coins, moveCount, aiWinMove) ==
    IF aiWinMove.move # Null
    THEN {[move |-> aiWinMove.move, rule |-> "win", board |-> aiWinMove.board]}
    ELSE rulesFromBlock(aiPlayer, coins, moveCount,
                        findWinningMove(aiWinMove.board, IF aiPlayer = 1 THEN 2 ELSE 1))

\* getNextMoveRules with an opening move beside the centre
getNextMoveRulesOffCenter(board, aiPlayer, coins) ==
    IF isEmptyBoard(board)
    THEN {[move |-> Mv(7, 8), rule |-> "center", board |-> board]}
    ELSE rulesFromWin(aiPlayer, coins, calculateMoveCount(board),
                      findWinningMove(board, aiPlayer))

getNextMoveRules(board, aiPlayer, coins) ==
    IF isEmptyBoard(board)
    THEN {[move |-> Mv(7, 7), rule |-> "center", board |-> board]}
    ELSE rulesFromWin(aiPlayer, coins, calculateMoveCount(board),
                      findWinningMove(board, aiPlayer))

-----------------------------------------------------------------------------
(***************************************************************************)
(* The boards the calls are made on.                                       *)
(***************************************************************************)

\* longest run of stones in a line pattern
MaxRun == 4
\* most empty cells of an endgame board
MaxEmptyCells == 4
\* most calls made on one engine
MaxCalls == 2

Difficulties == {"easy", "medium", "hard"}

\* k stones in a line with one empty cell after the g-th of them (no gap when
\* g = 0)
LinePattern(k, g) ==
    [i \in 1..(IF g = 0 THEN k ELSE k + 1) |-> IF g # 0 /\ i = g + 1 THEN 0 ELSE 1]

LinePatterns ==
    {LinePattern(kg[1], kg[2]) :
        kg \in {x \in (0..MaxRun) \X (0..MaxRun) : x[2] = 0 \/ x[2] < x[1]}}

\* a board with a pattern of black stones along row 7 from column 4 and a
\* pattern of white stones down the anti-diagonal from the corner (0, 14)
LineBoard(black, white) ==
    [r \in Idx |-> [c \in Idx |->
        IF r = 7 /\ c >= 4 /\ c - 3 <= Len(black) /\ black[c - 3] = 1 THEN 1
        ELSE IF r + c = 14 /\ r + 1 <= Len(white) /\ white[r + 1] = 1 THEN 2
        ELSE 0]]

LineBoards == {LineBoard(b, w) : b \in LinePatterns, w \in LinePatterns}

\* a full board on which no line holds three stones of one side
TiledBoard == [r \in Idx |-> [c \in Idx |-> IF ((c + 2 * r) % 4) < 2 THEN 1 ELSE 2]]

\* the cells emptied on an endgame board, in the order they are emptied
endgameHoles == << Mv(7, 7), Mv(7, 10), Mv(3, 3), Mv(12, 12), Mv(9, 4), Mv(2, 11) >>

EndgameBoard(n) ==
    [r \in Idx |-> [c \in Idx |->
        IF \E i \in 1..n : endgameHoles[i] = Mv(r, c) THEN 0 ELSE TiledBoard[r][c]]]

EndgameBoards == {EndgameBoard(n) : n \in 0..MaxEmptyCells}

\* the board after the moves of the n-th opening: Black plays the moves of
\* even index, White those of odd index
OpeningBoard(n) ==
    [r \in Idx |-> [c \in Idx |->
        IF \E i \in 1..Len(CLASSIC_OPENINGS[n].moves) :
              CLASSIC_OPENINGS[n].moves[i] = Mv(r, c) /\ i % 2 = 1 THEN 1
        ELSE IF \E i \in 1..Len(CLASSIC_OPENINGS[n].moves) :
              CLASSIC_OPENINGS[n].moves[i] = Mv(r, c) /\ i % 2 = 0 THEN 2
        ELSE 0]]

OpeningBoards == {OpeningBoard(n) : n \in 1..Len(CLASSIC_OPENINGS)}

\* stones played after the moves of an opening: the cell and the side
bookExtras ==
    {[cell |-> Mv(6, 8), side |-> 2], [cell |-> Mv(6, 7), side |-> 1],
     [cell |-> Mv(8, 6), side |-> 2], [cell |-> Mv(0, 0), side |-> 1],
     [cell |-> Mv(14, 14), side |-> 2]}

\* the board after the moves of the n-th opening and the stones `extras` on
\* cells the opening left empty
BookBoard(n, extras) ==
    [r \in Idx |-> [c \in Idx |->
        IF OpeningBoard(n)[r][c] # 0 THEN OpeningBoard(n)[r][c]
        ELSE IF \E e \in extras : e.cell = Mv(r, c)
        THEN (CHOOSE e \in extras : e.cell = Mv(r, c)).side
        ELSE 0]]

\* the boards getOpeningMove is called on
BookBoards ==
    {createEmptyBoard} \cup
    {BookBoard(n, extras) : n \in 1..Len(CLASSIC_OPENINGS), extras \in SUBSET bookExtras}

\* the boards getNextMove is called on
EngineBoards == LineBoards \cup EndgameBoards \cup OpeningBoards

-----------------------------------------------------------------------------
(***************************************************************************)
(* SuperGomokuAI.alphaBetaSearch and minimax, SuperAI.ts:346-426.  Both    *)
(* work on the caller's board buffer and on the evaluation cache, so a     *)
(* result carries, next to the score, the cache and the buffer as the      *)
(* invocation left them, and whether a loop was left by a break that       *)
(* skipped candidates.                                                     *)
(***************************************************************************)

\* the cutoff test the wrong way round: it breaks while the window is open
cutoffInverted(alpha, beta) == alpha <= beta

\* beta <= alpha, the test of both break statements
cutoff(alpha, beta) == beta <= alpha

RECURSIVE minimax(_, _, _, _, _, _, _)
RECURSIVE minimaxLoop(_, _, _, _, _, _, _, _, _, _, _)

\* depth 0: the value of evaluateBoard
minimaxLeaf(board, ev) ==
    [score |-> ev.score, cache |-> ev.cache, board |-> board, pruned |-> FALSE]

\* the statements of a loop body after the recursive call returned r: the
\* stone is removed, the value absorbed, the window narrowed and tested
minimaxAfter(depth, alpha, beta, maximizing, originalPlayer, moves, i, best, pruned, r) ==
    LET undone == [r.board EXCEPT ![moves[i].row][moves[i].col] = 0]
        newBest == IF maximizing THEN Max(best, r.score) ELSE Min(best, r.score)
        newAlpha == IF maximizing THEN Max(alpha, r.score) ELSE alpha
        newBeta == IF maximizing THEN beta ELSE Min(beta, r.score)
    IN  IF cutoff(newAlpha, newBeta)
        THEN [score |-> newBest, cache |-> r.cache, board |-> undone,
              pruned |-> (pruned \/ r.pruned \/ i < Len(moves))]
        ELSE minimaxLoop(undone, depth, newAlpha, newBeta, maximizing, originalPlayer,
                         moves, i + 1, newBest, r.cache, pruned \/ r.pruned)

\* the loop over the candidate slice from its i-th move on; best is maxScore
\* or minScore so far
minimaxLoop(board, depth, alpha, beta, maximizing, originalPlayer, moves, i, best, cache, pruned) ==
    IF i > Len(moves)
    THEN [score |-> best, cache |-> cache, board |-> board, pruned |-> pruned]
    ELSE minimaxAfter(depth, alpha, beta, maximizing, originalPlayer, moves, i, best, pruned,
             minimax([board EXCEPT ![moves[i].row][moves[i].col] =
                         IF maximizing THEN originalPlayer ELSE opponentOf(originalPlayer)],
                     depth - 1, alpha, beta, ~maximizing, originalPlayer, cache))

minimax(board, depth, alpha, beta, maximizing, originalPlayer, cache) ==
    IF depth = 0
    THEN minimaxLeaf(board, evaluateBoard(board, originalPlayer, cache))
    ELSE minimaxLoop(board, depth, alpha, beta, maximizing, originalPlayer,
             sliceTo(generateCandidateMoves(board,
                         IF maximizing THEN originalPlayer ELSE opponentOf(originalPlayer)),
                     10),
             1, IF maximizing THEN -Infinity ELSE Infinity, cache, FALSE)

RECURSIVE alphaBetaLoop(_, _, _, _, _, _, _, _, _)

\* the statements of the root loop body after minimax returned r
alphaBetaAfter(player, depth, moves, i, bestMove, bestScore, pruned, r) ==
    IF r.score > bestScore
    THEN alphaBetaLoop([r.board EXCEPT ![moves[i].row][moves[i].col] = 0], player, depth,
                       moves, i + 1, Mv(moves[i].row, moves[i].col), r.score, r.cache,
                       pruned \/ r.pruned)
    ELSE alphaBetaLoop([r.board EXCEPT ![moves[i].row][moves[i].col] = 0], player, depth,
                       moves, i + 1, bestMove, bestScore, r.cache, pruned \/ r.pruned)

alphaBetaLoop(board, player, depth, moves, i, bestMove, bestScore, cache, pruned) ==
    IF i > Len(moves)
    THEN [move |-> bestMove, rule |-> "search", board |-> board, cache |-> cache,
          bestScore |-> bestScore, pruned |-> pruned]
    ELSE alphaBetaAfter(player, depth, moves, i, bestMove, bestScore, pruned,
             minimax([board EXCEPT ![moves[i].row][moves[i].col] = player],
                     depth - 1, -Infinity, Infinity, FALSE, player, cache))

alphaBetaSearch(board, player, depth, cache) ==
    alphaBetaLoop(board, player, depth, sliceTo(generateCandidateMoves(board, player), 15),
                  1, Null, -Infinity, cache, FALSE)

-----------------------------------------------------------------------------
(***************************************************************************)
(* SuperGomokuAI.getBestMove, SuperAI.ts:259-295, and the last two steps   *)
(* of GomokuAI.getNextMove, AIPlayer.ts:136-152.  The outcome of a call is *)
(* the move returned (Null for null), the step that returned it, the board *)
(* buffer and the evaluation cache afterwards, and of a search its best    *)
(* score and whether it pruned.                                            *)
(***************************************************************************)

\* the outcome of a step that returns without searching
stepOutcome(move, rule, board, cache) ==
    [move |-> move, rule |-> rule, board |-> board, cache |-> cache,
     bestScore |-> -Infinity, pruned |-> FALSE]

\* getBestMove step by step, each step from the result of the one before
bestFromTactical(player, difficulty, cache, tacticalMove) ==
    IF tacticalMove.move # Null
    THEN stepOutcome(tacticalMove.move, "tactical", tacticalMove.board, cache)
    ELSE alphaBetaSearch(tacticalMove.board, player, maxDepthOf(difficulty), cache)

bestFromBlock(player, difficulty, cache, blockMove) ==
    IF blockMove.move # Null
    THEN stepOutcome(blockMove.move, "superBlock", blockMove.board, cache)
    ELSE bestFromTactical(player, difficulty, cache,
             findTacticalMove(blockMove.board, player,
                              analyzeThreats(blockMove.board, player)))

bestFromWin(player, difficulty, cache, winMove) ==
    IF winMove.move # Null
    THEN stepOutcome(winMove.move, "superWin", winMove.board, cache)
    ELSE bestFromBlock(player, difficulty, cache,
             superFindWinningMove(winMove.board, IF player = 1 THEN 2 ELSE 1))

getBestMoveOutcome(board, player, difficulty, cache) ==
    bestFromWin(player, difficulty, cache, superFindWinningMove(board, player))

\* findHighestScoredMoveOf returning a cell when there is no empty cell
findHighestScoredMoveAny(before, topMoves) ==
    {[before EXCEPT !.rule = "scored",
                    !.move = IF Len(topMoves) = 0 THEN Mv(0, 0)
                             ELSE Mv(topMoves[1].row, topMoves[1].col)]}

\* the last statement of getNextMove: a uniform pick among (at most three of)
\* the empty cells of highest evaluatePosition, null when there is none
findHighestScoredMoveOf(before, topMoves) ==
    IF Len(topMoves) = 0
    THEN {[before EXCEPT !.rule = "scored", !.move = Null]}
    ELSE {[before EXCEPT !.rule = "scored",
                         !.move = Mv(topMoves[randomIndex + 1].row,
                                     topMoves[randomIndex + 1].col)] :
            randomIndex \in 0..(Min(Len(topMoves), 3) - 1)}

\* the hard difficulty: the move of the search engine unless it is null
afterSuperMove(aiPlayer, superMove) ==
    IF superMove.move # Null
    THEN {superMove}
    ELSE findHighestScoredMoveOf(superMove, topMovesOf(superMove.board, aiPlayer))

\* getNextMove from the outcome d of its rules on
afterRules(aiPlayer, difficulty, cache, d) ==
    IF d.move # Null
    THEN {stepOutcome(d.move, d.rule, d.board, cache)}
    ELSE IF difficulty = "hard"
    THEN afterSuperMove(aiPlayer, getBestMoveOutcome(d.board, aiPlayer, difficulty, cache))
    ELSE findHighestScoredMoveOf(stepOutcome(Null, "none", d.board, cache),
                                 topMovesOf(d.board, aiPlayer))

\* the outcomes of one call of getNextMove
getNextMoveOutcomes(board, aiPlayer, difficulty, cache, coins) ==
    UNION {afterRules(aiPlayer, difficulty, cache, d) :
              d \in getNextMoveRules(board, aiPlayer, coins)}

-----------------------------------------------------------------------------
(***************************************************************************)
(* The boards checkWin is called on: one line of stones of one side.       *)
(***************************************************************************)

\* longest run of stones in a line checkWin is called on
MaxLine == 6

WinPatterns ==
    {LinePattern(kg[1], kg[2]) :
        kg \in {x \in (0..MaxLine) \X (0..MaxLine) : x[2] = 0 \/ x[2] < x[1]}}

\* the cell a line starts at: inside the board, or on its top edge
winAnchors == {Mv(4, 7), Mv(0, 7)}

\* a board with a pattern of stones of `side` from `anchor` in direction d;
\* the cell in the gap of the pattern holds `gap`: nothing, or a stone of the
\* other side
WinBoard(anchor, d, side, pattern, gap) ==
    [r \in Idx |-> [c \in Idx |->
        IF \E i \in 1..Len(pattern) :
              /\ pattern[i] = 1
              /\ r = anchor.row + (i - 1) * directions[d][1]
              /\ c = anchor.col + (i - 1) * directions[d][2]
        THEN side
        ELSE IF \E i \in 1..Len(pattern) :
              /\ pattern[i] = 0
              /\ r = anchor.row + (i - 1) * directions[d][1]
              /\ c = anchor.col + (i - 1) * directions[d][2]
        THEN gap
        ELSE 0]]

WinBoards ==
    UNION {{WinBoard(a, d, s, p, 0), WinBoard(a, d, s, p, 3 - s)} :
              a \in winAnchors, d \in 1..4, s \in {1, 2}, p \in WinPatterns}

-----------------------------------------------------------------------------
(***************************************************************************)
(* AITrainingSystem.playAIvsAI, AITrainingSystem.ts:187-229: what it       *)
(* computes between two reads of its variables.                            *)
(***************************************************************************)

\* the while condition without the test of winner
loopContinuesAfterWin(winner, moveCount) == moveCount < 225

\* the while condition
loopContinues(winner, moveCount) == winner = 0 /\ moveCount < 225

\* ai1 (black) is new GomokuAI('hard'), ai2 (white) new GomokuAI('medium')
difficultyOf(currentPlayer) == IF currentPlayer = 1 THEN "hard" ELSE "medium"

\* winner after the stone was placed, were a full board not looked for
winnerAfterNoDraw(winner, newBoard, row, col, currentPlayer) ==
    IF checkWin(newBoard, row, col, currentPlayer) THEN currentPlayer ELSE winner

\* winner after the stone at (row, col) of newBoard was placed
winnerAfter(winner, newBoard, row, col, currentPlayer) ==
    IF checkWin(newBoard, row, col, currentPlayer) THEN currentPlayer
    ELSE IF isBoardFull(newBoard) THEN 3
    ELSE winner

\* The results of Math.random() < 0.5 during a game are a stream of coins,
\* one for each ply (a ply draws at most once); a stream shorter than the
\* game is read cyclically.
coinAt(coins, moveCount) == coins[(moveCount % Len(coins)) + 1]

\* longest period of the periodic coin streams
CoinPeriod == 2

\* the plies of one stream at which the coin is FALSE; with it the game
\* fills the board
drawStreamBackPlies == {8, 12, 25, 29, 33, 43, 59, 62, 78, 117, 151, 192}

drawStream == [n \in 1..(BOARD_SIZE * BOARD_SIZE) |-> (n - 1) \notin drawStreamBackPlies]

CoinStreams == (UNION {[1..n -> BOOLEAN] : n \in 1..CoinPeriod}) \cup {drawStream}

-----------------------------------------------------------------------------
(***************************************************************************)
(* AITrainingSystem: the background trainer, AITrainingSystem.ts:128-258.  *)
(* A game enters it by its record: the number of its moves and its winner. *)
(***************************************************************************)

\* most pending start-up timers, most runs begun, and most imports, resets and
\* reloads of the page
MaxStartupTimers == 2
MaxGames == 3
MaxDataOps == 2

\* records of games playAIvsAI returns: extractPatterns tags a game of three
\* moves or more with its opening and one of ten or more with its midgame
blackWin == [plies |-> 23, winner |-> 1, patterns |-> {"opening", "midgame_5"}]
whiteWin == [plies |-> 36, winner |-> 2, patterns |-> {"opening", "midgame_5"}]
GameRecords == {blackWin, whiteWin}

\* the suspensions of playAIvsAI in a game of that many plies: one after
\* every tenth
awaitsOf(plies) == plies \div 10

\* trainingGames after analyzeAndLearn(game)
pushGame(trainingGames, game) ==
    IF Len(trainingGames) + 1 > 1000
    THEN Tail(Append(trainingGames, game))
    ELSE Append(trainingGames, game)

\* the last 50 games, the window of getLearningInsights
lastFifty(trainingGames) ==
    SubSeq(trainingGames, Max(1, Len(trainingGames) - 49), Len(trainingGames))

\* the last 100 games
recentGames(trainingGames) ==
    SubSeq(trainingGames, Max(1, Len(trainingGames) - 99), Len(trainingGames))

RECURSIVE sumPlies(_)
sumPlies(games) == IF Len(games) = 0 THEN 0 ELSE games[1].plies + sumPlies(Tail(games))

\* analyzeWinningPatterns().length
learnedPatternsOf(trainingGames) ==
    Cardinality(UNION {trainingGames[i].patterns :
                          i \in {j \in DOMAIN trainingGames : trainingGames[j].winner # 0}})

\* stats as analyzeAndLearn leaves them; winRate and averageGameLength are
\* quotients, kept as numerator and denominator
analyzedStats(stats, trainingGames) ==
    [gamesPlayed |-> stats.gamesPlayed,
     winRate |-> << Cardinality({i \in DOMAIN recentGames(trainingGames) :
                                    recentGames(trainingGames)[i].winner = 1}),
                    Len(recentGames(trainingGames)) >>,
     averageGameLength |-> << sumPlies(recentGames(trainingGames)),
                              Len(recentGames(trainingGames)) >>,
     learnedPatterns |-> learnedPatternsOf(trainingGames)]

\* stats after analyzeAndLearn and gamesPlayed++
statsAfter(stats, trainingGames) ==
    [analyzedStats(stats, trainingGames) EXCEPT !.gamesPlayed = @ + 1]

\* stats after updateStatsFromHistory()
updateStatsFromHistory(stats, trainingGames) ==
    IF Len(trainingGames) = 0
    THEN stats
    ELSE [stats EXCEPT
            !.winRate = << Cardinality({i \in DOMAIN recentGames(trainingGames) :
                                           recentGames(trainingGames)[i].winner = 1}),
                           Len(recentGames(trainingGames)) >>,
            !.averageGameLength = << sumPlies(recentGames(trainingGames)),
                                     Len(recentGames(trainingGames)) >>,
            !.learnedPatterns = learnedPatternsOf(trainingGames)]

\* the stats of the constructor and of resetTraining
defaultStats ==
    [gamesPlayed |-> 0, winRate |-> << 0, 1 >>, averageGameLength |-> << 0, 1 >>,
     learnedPatterns |-> 0]

\* An item of localStorage, or a string handed to importTrainingData: absent,
\* text JSON.parse throws on, or the value it parses to.
absent == [kind |-> "absent"]
corrupt == [kind |-> "corrupt"]
parsed(value) == [kind |-> "value", value |-> value]

emptyStorage == [games |-> absent, stats |-> absent]

\* localStorage after saveTrainingData()
saveTrainingData(trainingGames, stats) ==
    [games |-> parsed(SubSeq(trainingGames, Max(1, Len(trainingGames) - 999),
                             Len(trainingGames))),
     stats |-> parsed(stats)]

\* the log, the stats and localStorage after resetTraining()
resetTrainingState ==
    [trainingGames |-> << >>, stats |-> defaultStats, storage |-> emptyStorage]

\* a load that keeps a log that parsed and rebuilds the stats from it
loadTrainingDataRebuilding(storage) ==
    IF storage.games.kind = "corrupt"
    THEN resetTrainingState
    ELSE [trainingGames |-> IF storage.games.kind = "value"
                            THEN storage.games.value ELSE << >>,
          stats |-> updateStatsFromHistory(
                        defaultStats,
                        IF storage.games.kind = "value"
                        THEN storage.games.value ELSE << >>),
          storage |-> storage]

\* the log, the stats and localStorage after loadTrainingData() in the
\* constructor: a JSON.parse that throws ends in the catch clause
loadTrainingData(storage) ==
    IF storage.games.kind = "corrupt" \/ storage.stats.kind = "corrupt"
    THEN resetTrainingState
    ELSE [trainingGames |-> IF storage.games.kind = "value"
                            THEN storage.games.value ELSE << >>,
          stats |-> updateStatsFromHistory(
                        IF storage.stats.kind = "value"
                        THEN storage.stats.value ELSE defaultStats,
                        IF storage.games.kind = "value"
                        THEN storage.games.value ELSE << >>),
          storage |-> storage]

\* What localStorage may hold when the page is loaded: nothing, what a
\* session of so many completed runs saved (gamesPlayed is saved before the
\* run counts itself), or an item that no longer parses.
savedBy(trainingGames, gamesPlayed) ==
    saveTrainingData(trainingGames,
                     analyzedStats([defaultStats EXCEPT !.gamesPlayed = gamesPlayed],
                                   trainingGames))

fullLog == [i \in 1..1000 |-> IF i % 2 = 1 THEN blackWin ELSE whiteWin]

StoredStates ==
    {emptyStorage,
     savedBy(<< blackWin >>, 0),
     savedBy(fullLog, 999),
     [savedBy(<< blackWin, whiteWin >>, 1) EXCEPT !.stats = corrupt],
     [savedBy(<< blackWin >>, 0) EXCEPT !.games = corrupt]}

\* analyzeWinningPatterns throws on a decided game whose record has no tags
\* (game.patterns.forEach of undefined)
patternsThrow(trainingGames) ==
    \E i \in DOMAIN trainingGames :
        trainingGames[i].winner # 0 /\ "patterns" \notin DOMAIN trainingGames[i]

\* Strings handed to importTrainingData: text that does not parse, an
\* object without stats, the export of a trainer, and files whose games are
\* none or more than a trainer keeps.
exportTrainingData(trainingGames, stats) == [games |-> trainingGames, stats |-> stats]

\* a file of another program: its one game record has no tags
untaggedWin == [plies |-> 31, winner |-> 1]

ForeignData == {parsed(exportTrainingData(<< untaggedWin >>, defaultStats))}

ImportData ==
    {corrupt,
     parsed([games |-> << blackWin >>]),
     parsed(exportTrainingData(<< whiteWin >>, statsAfter(defaultStats, << whiteWin >>))),
     parsed(exportTrainingData(<< >>, statsAfter(defaultStats, << whiteWin >>))),
     parsed(exportTrainingData(Append(fullLog, blackWin),
                               statsAfter([defaultStats EXCEPT !.gamesPlayed = 1000],
                                          Append(fullLog, blackWin))))}

-----------------------------------------------------------------------------
(***************************************************************************)
(* State.                                                                  *)
(***************************************************************************)

\* One call of the engine: board is the buffer the caller passed and inBoard
\* its contents when the call was made.
VARIABLES board, inBoard, aiPlayer, difficulty, entry, pc, result, rule,
          evaluationCache, pruned, bestScore

\* how many calls have been made on the engine
VARIABLES calls

\* One call of checkWin: the board and the call with its answer.
VARIABLES winBoard, checked

\* One game of playAIvsAI: its local variables, the place it is at, the
\* evaluation caches of its two engines and the coins of the game.
VARIABLES gameBoard, moves, currentPlayer, winner, moveCount, gamePc, aiCache, coins

\* The trainer: its fields, the start-up timers pending, the runs of
\* runSelfPlayTraining that have begun and not ended, and what the last timer
\* callback did ("started" a run, or "skipped").
VARIABLES trainingGames, isTraining, stats, trainInterval, startupTimers, runs, lastTrigger

\* What the trainer keeps in localStorage, and beside it what the model
\* remembers of the past: what localStorage held when the trainer was
\* constructed, the log and the stats of the trainer of the page before the
\* last reload, the last operation on the log, and how many runs have begun
\* and how many imports, resets and reloads were made.
VARIABLES storage, loadedFrom, priorSession, lastOp, begun, dataOps

\* One call of a function of the library: the board it is given, and the call
\* with its arguments and what it returned.
VARIABLES libBoard, libCall

\* The game component: its game state (board, side to move, winner and the
\* history of states moves were made in; the mode stays 'local'), the switch
\* of the AI opponent, and, to state properties of an undo after a move, which
\* of the two the last handlers were and the game state the move was made in.
VARIABLES gameState, aiEnabled, uiOp, beforeMove

engineVars == << board, inBoard, aiPlayer, difficulty, entry, pc, result, rule,
                 evaluationCache, pruned, bestScore, calls >>

winVars == << winBoard, checked >>

gameVars == << gameBoard, moves, currentPlayer, winner, moveCount, gamePc, aiCache, coins >>

trainerVars ==
    << trainingGames, isTraining, stats, trainInterval, startupTimers, runs, lastTrigger,
       storage, loadedFrom, priorSession, lastOp, begun, dataOps >>

callVars == << libBoard, libCall >>

uiVars == << gameState, aiEnabled, uiOp, beforeMove >>

vars == << engineVars, winVars, gameVars, trainerVars, callVars, uiVars >>

\* no call of the engine is being made
EngineIdle ==
    /\ board = createEmptyBoard
    /\ inBoard = createEmptyBoard
    /\ aiPlayer = 1
    /\ difficulty = "medium"
    /\ entry = "none"
    /\ pc = "idle"
    /\ result = Null
    /\ rule = "none"
    /\ evaluationCache = << >>
    /\ pruned = FALSE
    /\ bestScore = -Infinity
    /\ calls = 0

\* no call of checkWin is being made
WinIdle ==
    /\ winBoard = createEmptyBoard
    /\ checked = Null

\* no game is being played
GameIdle ==
    /\ gameBoard = createEmptyBoard
    /\ moves = << >>
    /\ currentPlayer = 1
    /\ winner = 0
    /\ moveCount = 0
    /\ gamePc = "idle"
    /\ aiCache = [p \in {1, 2} |-> << >>]
    /\ coins = << TRUE >>

\* the trainer as its constructor leaves it when nothing is stored: the
\* constructor ends with startBackgroundTraining()
TrainerInit ==
    /\ trainingGames = << >>
    /\ isTraining = FALSE
    /\ stats = defaultStats
    /\ trainInterval = TRUE
    /\ startupTimers = 1
    /\ runs = << >>
    /\ lastTrigger = "none"
    /\ storage = emptyStorage
    /\ loadedFrom = emptyStorage
    /\ priorSession = absent
    /\ lastOp = "load"
    /\ begun = 0
    /\ dataOps = 0

\* no function of the library is being called
CallIdle ==
    /\ libBoard = createEmptyBoard
    /\ libCall = [op |-> "none"]

\* createInitialState of the game component
createInitialState ==
    [board |-> createEmptyBoard, currentPlayer |-> 1, winner |-> 0, history |-> << >>]

\* the game component as it is mounted, nothing clicked
UiIdle ==
    /\ gameState = createInitialState
    /\ aiEnabled = FALSE
    /\ uiOp = "none"
    /\ beforeMove = createInitialState

-----------------------------------------------------------------------------
(***************************************************************************)
(* One call of the engine.                                                 *)
(***************************************************************************)

EngineInit ==
    /\ aiPlayer \in {1, 2}
    /\ difficulty \in Difficulties
    /\ \/ entry = "getNextMove" /\ board \in EngineBoards
       \/ entry = "getBestMove" /\ board \in EndgameBoards
       \/ entry = "alphaBetaSearch" /\ board \in EndgameBoards
    /\ inBoard = board
    /\ pc = "call"
    /\ result = Null
    /\ rule = "none"
    /\ evaluationCache = << >>
    /\ pruned = FALSE
    /\ bestScore = -Infinity
    /\ calls = 1

\* the return of a call with outcome o
engineReturn(o) ==
    /\ result' = o.move
    /\ rule' = o.rule
    /\ board' = o.board
    /\ evaluationCache' = o.cache
    /\ bestScore' = o.bestScore
    /\ pruned' = o.pruned
    /\ pc' = "done"
    /\ UNCHANGED << inBoard, aiPlayer, difficulty, entry, calls >>
    /\ UNCHANGED << winVars, gameVars, trainerVars, callVars, uiVars >>

getNextMove ==
    /\ pc = "call" /\ entry = "getNextMove"
    /\ \E o \in getNextMoveOutcomes(board, aiPlayer, difficulty, evaluationCache, BOOLEAN) :
          engineReturn(o)

getBestMove ==
    /\ pc = "call" /\ entry = "getBestMove"
    /\ engineReturn(getBestMoveOutcome(board, aiPlayer, difficulty, evaluationCache))

\* step 5 of getBestMove on its own: the search at the depth of the difficulty
alphaBetaSearchCall ==
    /\ pc = "call" /\ entry = "alphaBetaSearch"
    /\ engineReturn(alphaBetaSearch(board, aiPlayer, maxDepthOf(difficulty),
                                    evaluationCache))

Init == EngineInit /\ WinIdle /\ GameIdle /\ TrainerInit /\ CallIdle /\ UiIdle

Next ==
    \/ getNextMove
    \/ getBestMove
    \/ alphaBetaSearchCall

Spec == Init /\ [][Next]_vars

-----------------------------------------------------------------------------
(***************************************************************************)
(* Several calls on one SuperGomokuAI: the engine keeps its difficulty and *)
(* its evaluationCache from one call to the next.                          *)
(***************************************************************************)

\* the caller makes another call on the engine that has returned
callAgain ==
    /\ pc = "done"
    /\ calls < MaxCalls
    /\ calls' = calls + 1
    /\ board' \in EndgameBoards
    /\ inBoard' = board'
    /\ aiPlayer' \in {1, 2}
    /\ pc' = "call"
    /\ result' = Null
    /\ rule' = "none"
    /\ pruned' = FALSE
    /\ bestScore' = -Infinity
    /\ UNCHANGED << difficulty, entry, evaluationCache >>
    /\ UNCHANGED << winVars, gameVars, trainerVars, callVars, uiVars >>

ReuseInit ==
    /\ EngineInit
    /\ entry \in {"getBestMove", "alphaBetaSearch"}
    /\ WinIdle /\ GameIdle /\ TrainerInit /\ CallIdle /\ UiIdle

ReuseNext ==
    \/ getBestMove
    \/ alphaBetaSearchCall
    \/ callAgain

SpecReuse == ReuseInit /\ [][ReuseNext]_vars

-----------------------------------------------------------------------------
(***************************************************************************)
(* One call of checkWin.                                                   *)
(***************************************************************************)

checkWinCall ==
    /\ checked = Null
    /\ \E row \in Idx : \E col \in Idx : \E player \in {1, 2} :
          checked' = [row |-> row, col |-> col, player |-> player,
                      won |-> checkWin(winBoard, row, col, player)]
    /\ UNCHANGED winBoard
    /\ UNCHANGED << engineVars, gameVars, trainerVars, callVars, uiVars >>

WinInit ==
    /\ winBoard \in WinBoards
    /\ checked = Null
    /\ EngineIdle /\ GameIdle /\ TrainerInit /\ CallIdle /\ UiIdle

WinNext == checkWinCall

SpecWin == WinInit /\ [][WinNext]_vars

-----------------------------------------------------------------------------
(***************************************************************************)
(* One game of playAIvsAI.  gamePc is "loop" at the while condition,       *)
(* "await" while the game is suspended after every tenth ply, "returned"   *)
(* after the return.                                                       *)
(***************************************************************************)

\* the loop body after getNextMove returned outcome o
playAIvsAIBody(o, newBoard) ==
    /\ aiCache' = [aiCache EXCEPT ![currentPlayer] = o.cache]
    /\ IF o.move = Null
       THEN /\ gameBoard' = o.board
            /\ gamePc' = "returned"
            /\ UNCHANGED << moves, currentPlayer, winner, moveCount >>
       ELSE /\ moves' = Append(moves, o.move)
            /\ winner' = winnerAfter(winner, newBoard, o.move.row, o.move.col, currentPlayer)
            /\ gameBoard' = newBoard
            /\ currentPlayer' = getNextPlayer(currentPlayer)
            /\ moveCount' = moveCount + 1
            /\ gamePc' = IF (moveCount + 1) % 10 = 0 THEN "await" ELSE "loop"

\* one pass through the loop body
playAIvsAIPly ==
    /\ gamePc = "loop"
    /\ loopContinues(winner, moveCount)
    /\ \E o \in getNextMoveOutcomes(gameBoard, currentPlayer, difficultyOf(currentPlayer),
                                    aiCache[currentPlayer], {coinAt(coins, moveCount)}) :
          playAIvsAIBody(o, IF o.move = Null THEN o.board
                            ELSE makeMove(o.board, o.move.row, o.move.col, currentPlayer))
    /\ UNCHANGED coins
    /\ UNCHANGED << engineVars, winVars, trainerVars, callVars, uiVars >>

\* the timer of the await fires
playAIvsAIResume ==
    /\ gamePc = "await"
    /\ gamePc' = "loop"
    /\ UNCHANGED << gameBoard, moves, currentPlayer, winner, moveCount, aiCache, coins >>
    /\ UNCHANGED << engineVars, winVars, trainerVars, callVars, uiVars >>

\* the while condition fails and the game record is returned
playAIvsAIReturn ==
    /\ gamePc = "loop"
    /\ ~loopContinues(winner, moveCount)
    /\ gamePc' = "returned"
    /\ UNCHANGED << gameBoard, moves, currentPlayer, winner, moveCount, aiCache, coins >>
    /\ UNCHANGED << engineVars, winVars, trainerVars, callVars, uiVars >>

SelfPlayInit ==
    /\ gameBoard = createEmptyBoard
    /\ moves = << >>
    /\ currentPlayer = 1
    /\ winner = 0
    /\ moveCount = 0
    /\ gamePc = "loop"
    /\ aiCache = [p \in {1, 2} |-> << >>]
    /\ coins \in CoinStreams
    /\ EngineIdle /\ WinIdle /\ TrainerInit /\ CallIdle /\ UiIdle

SelfPlayNext ==
    \/ playAIvsAIPly
    \/ playAIvsAIResume
    \/ playAIvsAIReturn

\* what every pass through the loop body does: it ends at the increment of
\* moveCount or at the break
loopBodyEnds ==
    /\ gamePc = "loop"
    /\ loopContinues(winner, moveCount)
    /\ \/ moveCount' = moveCount + 1 /\ gamePc' \in {"loop", "await"}
       \/ moveCount' = moveCount /\ gamePc' = "returned"

\* The code between two awaits runs to its end (getNextMove is a computation
\* of bounded loops and bounded recursion), and the timer of an await fires.
SpecSelfPlay ==
    /\ SelfPlayInit
    /\ [][SelfPlayNext]_vars
    /\ WF_<< moveCount, gamePc >>(loopBodyEnds)
    /\ WF_vars(playAIvsAIResume)
    /\ WF_vars(playAIvsAIReturn)

-----------------------------------------------------------------------------
(***************************************************************************)
(* The trainer.  A step is what runs between two returns to the event      *)
(* loop: a call of start or stop, a timer callback, or the resumption of a *)
(* suspended game.                                                         *)
(***************************************************************************)

\* the guard of runSelfPlayTraining left out
alreadyTrainingIgnored == FALSE

\* if (this.isTraining) return
alreadyTraining == isTraining

\* isTraining after a run whose error was caught, were there no finally
\* clause
isTrainingLeftSet == TRUE

\* isTraining after a run whose error was caught: the finally clause
isTrainingAfterCatch == FALSE

\* the end of a run: analyzeAndLearn(game), gamesPlayed++, and the finally
\* clause; an error of analyzeWinningPatterns leaves the try block for the
\* catch clause after the game was pushed
\* clause
runEnds(game) ==
    /\ trainingGames' = pushGame(trainingGames, game)
    /\ IF patternsThrow(pushGame(trainingGames, game))
       THEN /\ lastOp' = "runFailed"
            /\ isTraining' = isTrainingAfterCatch
            /\ UNCHANGED << stats, storage >>
       ELSE /\ stats' = statsAfter(stats, pushGame(trainingGames, game))
            /\ storage' = saveTrainingData(pushGame(trainingGames, game),
                                           analyzedStats(stats, pushGame(trainingGames, game)))
            /\ lastOp' = "run"
            /\ isTraining' = FALSE

\* runSelfPlayTraining up to the first suspension of its game, or to its end
\* when the game has none
runSelfPlayTraining ==
    IF alreadyTraining
    THEN /\ lastTrigger' = "skipped"
         /\ UNCHANGED << trainingGames, isTraining, stats, runs, storage, lastOp, begun >>
    ELSE /\ lastTrigger' = "started"
         /\ begun' = begun + 1
         /\ \E game \in GameRecords :
               IF awaitsOf(game.plies) = 0
               THEN runEnds(game) /\ UNCHANGED runs
               ELSE /\ isTraining' = TRUE
                    /\ runs' = Append(runs, [game |-> game, awaits |-> awaitsOf(game.plies)])
                    /\ UNCHANGED << trainingGames, stats, storage, lastOp >>

startBackgroundTraining ==
    /\ startupTimers < MaxStartupTimers
    /\ IF trainInterval
       THEN UNCHANGED << trainInterval, startupTimers >>
       ELSE trainInterval' = TRUE /\ startupTimers' = startupTimers + 1
    /\ UNCHANGED << trainingGames, isTraining, stats, runs, lastTrigger >>
    /\ UNCHANGED << storage, loadedFrom, priorSession, lastOp, begun, dataOps >>
    /\ UNCHANGED << engineVars, winVars, gameVars, callVars, uiVars >>

stopBackgroundTraining ==
    /\ trainInterval' = FALSE
    /\ UNCHANGED << trainingGames, isTraining, stats, startupTimers, runs, lastTrigger >>
    /\ UNCHANGED << storage, loadedFrom, priorSession, lastOp, begun, dataOps >>
    /\ UNCHANGED << engineVars, winVars, gameVars, callVars, uiVars >>

\* the callback of setInterval
intervalFires ==
    /\ trainInterval
    /\ begun < MaxGames
    /\ IF ~isTraining
       THEN runSelfPlayTraining
       ELSE /\ lastTrigger' = "skipped"
            /\ UNCHANGED << trainingGames, isTraining, stats, runs, storage, lastOp, begun >>
    /\ UNCHANGED << trainInterval, startupTimers, loadedFrom, priorSession, dataOps >>
    /\ UNCHANGED << engineVars, winVars, gameVars, callVars, uiVars >>

\* the callback of the setTimeout of startBackgroundTraining
startupFires ==
    /\ startupTimers > 0
    /\ begun < MaxGames
    /\ startupTimers' = startupTimers - 1
    /\ runSelfPlayTraining
    /\ UNCHANGED << trainInterval, loadedFrom, priorSession, dataOps >>
    /\ UNCHANGED << engineVars, winVars, gameVars, callVars, uiVars >>

\* the game of the i-th run resumes from an await that is not its last
gameResumes(i) ==
    /\ runs[i].awaits > 1
    /\ runs' = [runs EXCEPT ![i].awaits = runs[i].awaits - 1]
    /\ UNCHANGED << trainingGames, isTraining, stats, storage, lastOp >>

\* the game of the i-th run resumes from its last await: it is played to its
\* end and the run ends
runCompletes(i) ==
    /\ runs[i].awaits = 1
    /\ runs' = [j \in 1..(Len(runs) - 1) |-> IF j < i THEN runs[j] ELSE runs[j + 1]]
    /\ runEnds(runs[i].game)

runResumes ==
    /\ \E i \in 1..Len(runs) : gameResumes(i) \/ runCompletes(i)
    /\ UNCHANGED << trainInterval, startupTimers, lastTrigger >>
    /\ UNCHANGED << loadedFrom, priorSession, begun, dataOps >>
    /\ UNCHANGED << engineVars, winVars, gameVars, callVars, uiVars >>

TrainerNext ==
    \/ startBackgroundTraining
    \/ stopBackgroundTraining
    \/ intervalFires
    \/ startupFires
    \/ runResumes

TrainerStart == TrainerInit /\ EngineIdle /\ WinIdle /\ GameIdle /\ CallIdle /\ UiIdle

SpecTrainer == TrainerStart /\ [][TrainerNext]_vars

-----------------------------------------------------------------------------
(***************************************************************************)
(* The trainer and what it keeps: the page is loaded over what an earlier  *)
(* session left in localStorage, its timers run games, and the log is      *)
(* imported, reset, and loaded again when the page is reloaded.            *)
(***************************************************************************)

\* the trainer the constructor leaves over that localStorage
constructedOver(store) ==
    /\ trainingGames = loadTrainingData(store).trainingGames
    /\ stats = loadTrainingData(store).stats
    /\ storage = loadTrainingData(store).storage
    /\ loadedFrom = store
    /\ lastOp = "load"
    /\ isTraining = FALSE
    /\ trainInterval = TRUE
    /\ startupTimers = 1
    /\ runs = << >>
    /\ lastTrigger = "none"

importTrainingDataOf(data) ==
    /\ dataOps < MaxDataOps
    /\ dataOps' = dataOps + 1
    /\ IF data.kind = "value" /\ DOMAIN data.value = {"games", "stats"}
       THEN /\ trainingGames' = data.value.games
            /\ stats' = data.value.stats
            /\ storage' = saveTrainingData(data.value.games, data.value.stats)
            /\ lastOp' = "import"
       ELSE /\ lastOp' = "importFailed"
            /\ UNCHANGED << trainingGames, stats, storage >>
    /\ UNCHANGED << isTraining, trainInterval, startupTimers, runs, lastTrigger >>
    /\ UNCHANGED << loadedFrom, priorSession, begun >>
    /\ UNCHANGED << engineVars, winVars, gameVars, callVars, uiVars >>

importTrainingData == \E data \in ImportData : importTrainingDataOf(data)

resetTraining ==
    /\ dataOps < MaxDataOps
    /\ dataOps' = dataOps + 1
    /\ trainingGames' = resetTrainingState.trainingGames
    /\ stats' = resetTrainingState.stats
    /\ storage' = resetTrainingState.storage
    /\ lastOp' = "reset"
    /\ UNCHANGED << isTraining, trainInterval, startupTimers, runs, lastTrigger >>
    /\ UNCHANGED << loadedFrom, priorSession, begun >>
    /\ UNCHANGED << engineVars, winVars, gameVars, callVars, uiVars >>

\* the page is loaded again: the module constructs a new trainer over what
\* localStorage holds, and the timers and the runs of the old page are gone
pageReload ==
    /\ dataOps < MaxDataOps
    /\ dataOps' = dataOps + 1
    /\ priorSession' = parsed([trainingGames |-> trainingGames, stats |-> stats])
    /\ trainingGames' = loadTrainingData(storage).trainingGames
    /\ stats' = loadTrainingData(storage).stats
    /\ storage' = loadTrainingData(storage).storage
    /\ loadedFrom' = storage
    /\ lastOp' = "load"
    /\ isTraining' = FALSE
    /\ trainInterval' = TRUE
    /\ startupTimers' = 1
    /\ runs' = << >>
    /\ lastTrigger' = "none"
    /\ UNCHANGED begun
    /\ UNCHANGED << engineVars, winVars, gameVars, callVars, uiVars >>

StoreInit ==
    /\ \E store \in StoredStates : constructedOver(store)
    /\ priorSession = absent
    /\ begun = 0
    /\ dataOps = 0
    /\ EngineIdle /\ WinIdle /\ GameIdle /\ CallIdle /\ UiIdle

StoreNext ==
    \/ intervalFires
    \/ startupFires
    \/ runResumes
    \/ importTrainingData
    \/ resetTraining
    \/ pageReload

SpecStore == StoreInit /\ [][StoreNext]_vars

-----------------------------------------------------------------------------
(***************************************************************************)
(* The trainer over a log whose records make a run fail: the file of       *)
(* another program is imported, and the runs that end after it throw in    *)
(* analyzeAndLearn.                                                        *)
(***************************************************************************)

importForeignData == \E data \in ForeignData : importTrainingDataOf(data)

FailNext ==
    \/ intervalFires
    \/ startupFires
    \/ runResumes
    \/ importForeignData

\* the timer of an await fires: a suspended game resumes
SpecFail == TrainerStart /\ [][FailNext]_vars /\ WF_vars(runResumes)

-----------------------------------------------------------------------------
(***************************************************************************)
(* One call of a function of the library on a board.                       *)
(***************************************************************************)

\* the boards recognizePattern is called on
PatternBoards == EndgameBoards \cup {createEmptyBoard}

\* the boards analyzeThreats is called on
ThreatBoards == LineBoards \cup EndgameBoards

CallBoards == PatternBoards \cup BookBoards \cup ThreatBoards

\* a call returns: the board as the call left it, the call and its answer
callReturns(b, call) ==
    /\ libBoard' = b
    /\ libCall' = call
    /\ UNCHANGED << engineVars, winVars, gameVars, trainerVars, uiVars >>

\* PatternRecognition.recognizePattern, SuperAI.ts:58-98, with the window it
\* extracted
recognizePatternCall ==
    /\ libCall.op = "none" /\ libBoard \in PatternBoards
    /\ \E row \in Idx, col \in Idx, d \in 1..4, player \in {1, 2} :
          callReturns(libBoard,
              [op |-> "recognizePattern", row |-> row, col |-> col,
               dx |-> threatDirections[d][1], dy |-> threatDirections[d][2],
               player |-> player,
               line |-> extractLine(libBoard, row, col, threatDirections[d][1],
                                    threatDirections[d][2], 9),
               out |-> recognizePattern(libBoard, row, col, threatDirections[d][1],
                                        threatDirections[d][2], player)])

\* the rows and columns makeMove is called with: the board's and one beyond
\* each edge
MoveCoords == (-1)..BOARD_SIZE

\* makeMove, gameLogic.ts:121-134: it has no throw statement, every call
\* returns a board
makeMoveCall ==
    /\ libCall.op = "none" /\ libBoard \in PatternBoards
    /\ \E row \in MoveCoords, col \in MoveCoords, player \in {1, 2} :
          callReturns(libBoard,
              [op |-> "makeMove", row |-> row, col |-> col, player |-> player,
               outcome |-> "returned",
               out |-> makeMove(libBoard, row, col, player)])

\* ChessDatabase.getOpeningMove, ChessDatabase.ts:212-232, called as
\* getNextMove calls it: with the number of stones on the board
getOpeningMoveCall ==
    /\ libCall.op = "none" /\ libBoard \in BookBoards
    /\ callReturns(libBoard,
           [op |-> "getOpeningMove", moveCount |-> calculateMoveCount(libBoard),
            out |-> getOpeningMove(libBoard, calculateMoveCount(libBoard))])

\* ThreatAnalysis.analyzeThreats, SuperAI.ts:174-213
analyzeThreatsCall ==
    /\ libCall.op = "none" /\ libBoard \in ThreatBoards
    /\ \E player \in {1, 2} :
          callReturns(libBoard,
              [op |-> "analyzeThreats", player |-> player,
               out |-> analyzeThreats(libBoard, player)])

CallInit ==
    /\ libBoard \in CallBoards
    /\ libCall = [op |-> "none"]
    /\ EngineIdle /\ WinIdle /\ GameIdle /\ TrainerInit /\ UiIdle

CallNext ==
    \/ recognizePatternCall
    \/ makeMoveCall
    \/ getOpeningMoveCall
    \/ analyzeThreatsCall

SpecCalls == CallInit /\ [][CallNext]_vars

-----------------------------------------------------------------------------
(***************************************************************************)
(* Properties of one call of the engine.                                   *)
(***************************************************************************)

\* a line of five or more stones of `player` through (row, col) on b: five
\* consecutive cells of one orientation that contain (row, col) and all hold
\* `player`
FiveThrough(b, row, col, player) ==
    \E d \in 1..4 : \E k \in 0..4 : \A i \in 0..4 :
        /\ InRange(row + (i - k) * directions[d][1], col + (i - k) * directions[d][2])
        /\ b[row + (i - k) * directions[d][1]][col + (i - k) * directions[d][2]] = player

\* an empty cell of b at which a stone of `player` completes such a line
CompletesFive(b, row, col, player) ==
    /\ b[row][col] = 0
    /\ FiveThrough([b EXCEPT ![row][col] = player], row, col, player)

HasWinInOne(b, player) == \E r \in Idx : \E c \in Idx : CompletesFive(b, r, c, player)

Returned == pc = "done" /\ entry = "getNextMove"

\* C1: getNextMove returns no move, or a cell on the board that is empty on
\* the board passed in.
C1_LegalMove ==
    Returned =>
        \/ result = Null
        \/ /\ InRange(result.row, result.col)
           /\ inBoard[result.row][result.col] = 0

\* a call that blocked an open three returned a move
C1_Witness == Returned /\ rule = "three" /\ result # Null

\* C2: when the side to move has a cell that completes five, getNextMove
\* returns such a cell, whatever the opponent threatens.
C2_WinInOne ==
    (Returned /\ HasWinInOne(inBoard, aiPlayer)) =>
        /\ result # Null
        /\ CompletesFive(inBoard, result.row, result.col, aiPlayer)

\* a call on a board where both sides can complete five returned the own win
C2_Witness ==
    /\ Returned
    /\ HasWinInOne(inBoard, aiPlayer)
    /\ HasWinInOne(inBoard, opponentOf(aiPlayer))
    /\ rule = "win"

\* C3: when the side to move cannot complete five and the opponent can,
\* getNextMove returns an empty cell at which the opponent would complete
\* five.
C3_ForcedBlock ==
    (/\ Returned
     /\ ~HasWinInOne(inBoard, aiPlayer)
     /\ HasWinInOne(inBoard, opponentOf(aiPlayer))) =>
        /\ result # Null
        /\ CompletesFive(inBoard, result.row, result.col, opponentOf(aiPlayer))

C3_Witness ==
    /\ Returned
    /\ ~HasWinInOne(inBoard, aiPlayer)
    /\ HasWinInOne(inBoard, opponentOf(aiPlayer))
    /\ rule = "block"

\* C4: on a board without stones getNextMove returns the centre (7, 7), for
\* either side and every difficulty.
C4_EmptyBoardCenter ==
    (Returned /\ \A r \in Idx : \A c \in Idx : inBoard[r][c] = 0) => result = Mv(7, 7)

C4_Witness ==
    /\ Returned
    /\ \A r \in Idx : \A c \in Idx : inBoard[r][c] = 0
    /\ aiPlayer = 2
    /\ difficulty = "hard"

\* C5: on a board without empty cells getNextMove returns null, for either
\* side and every difficulty.
C5_FullBoardNull ==
    (Returned /\ \A r \in Idx : \A c \in Idx : inBoard[r][c] # 0) => result = Null

\* the hard engine was consulted on a full board and the scored fallback
\* returned null
C5_Witness ==
    /\ Returned
    /\ \A r \in Idx : \A c \in Idx : inBoard[r][c] # 0
    /\ difficulty = "hard"
    /\ rule = "scored"
    /\ result = Null

\* C7: when a call returns, the board buffer holds what it held when the call
\* was made.
C7_BufferRestored == pc = "done" => board = inBoard

\* a search that placed and removed stones and broke out of a loop returned
C7_Witness ==
    pc = "done" /\ rule = "search" /\ pruned /\ DOMAIN evaluationCache # {}

\* least of a non-empty set of scores
minOf(scores) == CHOOSE x \in scores : \A y \in scores : x <= y

\* Minimax without cutoffs over the tree the search walks: the same candidate
\* slice at every node, the same evaluation at depth 0 (evaluateBoard through
\* the cache as the search left it), -Infinity / Infinity at a node without
\* candidates.
RECURSIVE plainMinimax(_, _, _)
plainOver(b, depth, maximizing, stone, candidates) ==
    IF maximizing
    THEN maxOf({-Infinity} \cup
               {plainMinimax([b EXCEPT ![candidates[n].row][candidates[n].col] = stone],
                             depth - 1, FALSE) : n \in 1..Len(candidates)})
    ELSE minOf({Infinity} \cup
               {plainMinimax([b EXCEPT ![candidates[n].row][candidates[n].col] = stone],
                             depth - 1, TRUE) : n \in 1..Len(candidates)})

plainMinimax(b, depth, maximizing) ==
    IF depth = 0 THEN evaluateBoard(b, aiPlayer, evaluationCache).score
    ELSE plainOver(b, depth, maximizing,
                   IF maximizing THEN aiPlayer ELSE opponentOf(aiPlayer),
                   sliceTo(generateCandidateMoves(b,
                              IF maximizing THEN aiPlayer ELSE opponentOf(aiPlayer)), 10))

\* the unpruned value of the root move (row, col), and of the root
plainChild(row, col) ==
    plainMinimax([inBoard EXCEPT ![row][col] = aiPlayer], maxDepthOf(difficulty) - 1, FALSE)

plainRootOver(candidates) ==
    maxOf({-Infinity} \cup
          {plainChild(candidates[n].row, candidates[n].col) : n \in 1..Len(candidates)})

plainRoot == plainRootOver(sliceTo(generateCandidateMoves(inBoard, aiPlayer), 15))

\* C10: the value the alpha-beta search computes for the root is the value of
\* minimax without cutoffs on the same tree, and the move it returns has that
\* value under minimax without cutoffs.
C10_PruningKeepsValue ==
    (pc = "done" /\ rule = "search") =>
        /\ bestScore = plainRoot
        /\ result # Null => plainChild(result.row, result.col) = plainRoot

\* a search that cut a loop short returned a move with a value that is an
\* evaluation
C10_Witness ==
    /\ pc = "done" /\ rule = "search"
    /\ pruned
    /\ result # Null
    /\ bestScore > -Infinity /\ bestScore < Infinity

-----------------------------------------------------------------------------
(***************************************************************************)
(* Properties of one call of checkWin.                                     *)
(***************************************************************************)

\* the answer of the call is right for a line through its cell
AnswersFiveThrough ==
    checked.won <=> FiveThrough(winBoard, checked.row, checked.col, checked.player)

\* C6: for a cell that holds a stone of the side asked for, checkWin returns
\* true exactly when the cell lies on a line of five or more consecutive
\* stones of that side; so it returns false for such a cell when the board has
\* no such line.
C6_FiveThroughStone ==
    (checked # Null /\ winBoard[checked.row][checked.col] = checked.player) =>
        AnswersFiveThrough

\* a stone in a line of six was asked about, and the answer was true
C6_Witness ==
    /\ checked # Null
    /\ winBoard[checked.row][checked.col] = checked.player
    /\ checked.won
    /\ \E d \in 1..4 :
          LineCount(winBoard, checked.row, checked.col,
                    directions[d][1], directions[d][2], checked.player) > 5

\* C6 as stated, for every cell: true if the cell lies on a line of five or
\* more stones of the side, and false whenever the board has no such line of
\* that side.
C6_EveryCell ==
    checked # Null =>
        /\ FiveThrough(winBoard, checked.row, checked.col, checked.player) => checked.won
        /\ (\A r \in Idx : \A c \in Idx : ~FiveThrough(winBoard, r, c, checked.player))
              => ~checked.won

-----------------------------------------------------------------------------
(***************************************************************************)
(* Properties of one game of playAIvsAI.                                   *)
(***************************************************************************)

\* why a game that returned has ended: the last ply completed a five of the
\* side recorded as winner, or the board is full and a draw is recorded, or
\* 225 plies were played
EndedByWinDrawOrCap ==
    \/ /\ winner \in {1, 2}
       /\ moves # << >>
       /\ FiveThrough(gameBoard, moves[Len(moves)].row, moves[Len(moves)].col, winner)
    \/ winner = 3 /\ isBoardFull(gameBoard)
    \/ moveCount = 225

\* C8: every game returns; when it has returned it ended by a win, a draw on
\* a full board or the cap of 225 plies; no ply is played after a winner is
\* recorded; and the plies played never exceed 225.
C8_SelfPlayTerminates ==
    /\ <>(gamePc = "returned")
    /\ [](Len(moves) <= 225 /\ moveCount = Len(moves))
    /\ [](gamePc = "returned" => EndedByWinDrawOrCap)
    /\ [][winner # 0 => moves' = moves]_vars

\* a game returned as a draw with the board full after 225 plies
C8_Witness ==
    /\ gamePc = "returned"
    /\ winner = 3
    /\ isBoardFull(gameBoard)
    /\ Len(moves) = 225

-----------------------------------------------------------------------------
(***************************************************************************)
(* Properties of the trainer.                                              *)
(***************************************************************************)

\* C9: at most one run is in progress, and isTraining says whether one is; a
\* timer callback that fires while a run is in progress starts none, leaves
\* no timer behind, and leaves the run, the log and the statistics as they
\* are.
C9_OneRunAtATime ==
    /\ [](Len(runs) <= 1 /\ (isTraining <=> Len(runs) = 1))
    /\ [][((intervalFires \/ startupFires) /\ Len(runs) > 0) =>
            /\ lastTrigger' = "skipped"
            /\ runs' = runs
            /\ startupTimers' <= startupTimers
            /\ UNCHANGED << trainingGames, isTraining, stats >>]_vars

\* a timer callback was skipped during the run in progress, and the game of
\* that run has resumed from an await
C9_Witness ==
    /\ lastTrigger = "skipped"
    /\ Len(runs) = 1
    /\ runs[1].awaits < awaitsOf(runs[1].game.plies)
    /\ isTraining

-----------------------------------------------------------------------------
(***************************************************************************)
(* Properties of the open-three rule of getNextMove.                       *)
(***************************************************************************)

\* on b the cells (row, col), and the two after it in direction d, are a run
\* of exactly three stones of `player`: the cell before and the cell after
\* hold no stone of `player`
StartsThree(b, row, col, d, player) ==
    /\ \A i \in 0..2 :
          /\ InRange(row + i * directions[d][1], col + i * directions[d][2])
          /\ b[row + i * directions[d][1]][col + i * directions[d][2]] = player
    /\ ~(/\ InRange(row - directions[d][1], col - directions[d][2])
          /\ b[row - directions[d][1]][col - directions[d][2]] = player)
    /\ ~(/\ InRange(row + 3 * directions[d][1], col + 3 * directions[d][2])
          /\ b[row + 3 * directions[d][1]][col + 3 * directions[d][2]] = player)

\* the empty cells of b directly beyond an end of the run of three that
\* starts at (row, col) in direction d
EndsOfThree(b, row, col, d) ==
    {m \in {Mv(row - directions[d][1], col - directions[d][2]),
            Mv(row + 3 * directions[d][1], col + 3 * directions[d][2])} :
        isValidMove(b, m.row, m.col)}

\* the empty cells of b directly beyond an end of a run of exactly three
\* stones of `player`
ThreeEnds(b, player) ==
    UNION {EndsOfThree(b, x[1], x[2], x[3]) :
              x \in {y \in Idx \X Idx \X (1..4) : StartsThree(b, y[1], y[2], y[3], player)}}

\* C13: when neither side has a cell that completes five and the opponent has
\* a run of exactly three stones with an empty cell of the board directly
\* beyond an end, getNextMove returns an empty cell directly beyond an end of
\* such a run of the opponent.
C13_BlocksOpenThree ==
    (/\ Returned
     /\ ~HasWinInOne(inBoard, aiPlayer)
     /\ ~HasWinInOne(inBoard, opponentOf(aiPlayer))
     /\ ThreeEnds(inBoard, opponentOf(aiPlayer)) # {}) =>
        /\ rule = "three"
        /\ result \in ThreeEnds(inBoard, opponentOf(aiPlayer))

\* a call returned the far end of an opponent's three that is open at both
\* ends, on a board where the side to move has a three of its own
C13_Witness ==
    /\ Returned
    /\ ~HasWinInOne(inBoard, aiPlayer)
    /\ ~HasWinInOne(inBoard, opponentOf(aiPlayer))
    /\ Cardinality(ThreeEnds(inBoard, opponentOf(aiPlayer))) = 2
    /\ ThreeEnds(inBoard, aiPlayer) # {}
    /\ result = Mv(7, 7)

-----------------------------------------------------------------------------
(***************************************************************************)
(* Which step of getNextMove decides.                                      *)
(***************************************************************************)

\* the steps of getNextMove up to the attack step
StepsToAttack == {"center", "win", "block", "three", "attack"}

\* the outcomes getNextMove has on board b for a side at a difficulty
OutcomesOn(b, side, level) == getNextMoveOutcomes(b, side, level, << >>, BOOLEAN)

\* on every board with an empty cell getNextMove returns from the attack step
\* or from a step before it, at every difficulty
AttackStepDecides == (Returned /\ ~isBoardFull(inBoard)) => rule \in StepsToAttack

\* C14: at the hard difficulty there is a board with empty cells on which
\* getNextMove returns the move of the search engine and, at the lower
\* difficulties, the move of the greedy evaluator.
C14_SearchDecidesAtHard ==
    \E b \in {x \in EngineBoards : ~isBoardFull(x)} : \E side \in {1, 2} :
        /\ \E o \in OutcomesOn(b, side, "hard") :
              o.move # Null /\ o.rule \in {"superWin", "superBlock", "tactical", "search"}
        /\ \A level \in {"easy", "medium"} :
              \E o \in OutcomesOn(b, side, level) : o.move # Null /\ o.rule = "scored"

\* C15: there is a board with at least one and fewer than ten stones on which
\* the attack step of getNextMove yields no move and getNextMove returns the
\* move of the opening book.
C15_OpeningBookDecides ==
    \E b \in {x \in EngineBoards : calculateMoveCount(x) \in 1..9} :
        \E side \in {1, 2} : \E level \in Difficulties :
            \E o \in OutcomesOn(b, side, level) : o.move # Null /\ o.rule = "opening"

\* a call on a board of fewer than ten stones for which the opening book has
\* a move returned from the attack step
BookShadowed ==
    /\ Returned /\ rule = "attack"
    /\ calculateMoveCount(inBoard) \in 1..9
    /\ getOpeningMove(inBoard, calculateMoveCount(inBoard)) # Null

-----------------------------------------------------------------------------
(***************************************************************************)
(* Properties of one call of recognizePattern.                             *)
(***************************************************************************)

\* the n-th cell of the window of the call lies off the board
OffBoard(n) ==
    ~InRange(libCall.row + (n - 5) * libCall.dx, libCall.col + (n - 5) * libCall.dy)

\* matchesPattern accepts the cell where a pattern holds the value v (1 an own
\* stone, 2 an opposing stone, 0 an empty cell)
ReadsAs(cell, v, player) == matchesPattern(<< cell >>, << v >>, player)

\* C11: for either side, every off-board cell of the 9-cell window is read as
\* a stone of the opposing side of the side being classified: never as an own
\* stone and never as an empty cell.
C11_OffBoardIsOpposing ==
    libCall.op = "recognizePattern" =>
        \A n \in 1..9 :
            OffBoard(n) =>
                /\ ReadsAs(libCall.line[n], 2, libCall.player)
                /\ ~ReadsAs(libCall.line[n], 1, libCall.player)
                /\ ~ReadsAs(libCall.line[n], 0, libCall.player)

-----------------------------------------------------------------------------
(***************************************************************************)
(* Properties of one call of makeMove.                                     *)
(***************************************************************************)

\* the call of makeMove was for a cell off the board or an occupied cell
IllegalCall ==
    libCall.op = "makeMove" /\ ~isValidMove(libBoard, libCall.row, libCall.col)

-----------------------------------------------------------------------------
(***************************************************************************)
(* Properties of one call of getOpeningMove.                               *)
(***************************************************************************)

\* the n-th opening matches the board of the call and its follow-up of index
\* i (from 0) exists and is an empty cell of the board
LegalFollowUp(n, i) ==
    /\ matchesOpening(libBoard, CLASSIC_OPENINGS[n], libCall.moveCount)
    /\ i < Len(CLASSIC_OPENINGS[n].followUp)
    /\ isValidMove(libBoard, CLASSIC_OPENINGS[n].followUp[i + 1].row,
                             CLASSIC_OPENINGS[n].followUp[i + 1].col)

\* the index getOpeningMove reads the follow-ups of the n-th opening at
ClampedIndex(n) == Min(libCall.moveCount, Len(CLASSIC_OPENINGS[n].followUp) - 1)

\* C16 as stated: the move getOpeningMove returns is the follow-up of index
\* ply count of an opening that matches the board, an empty cell of the
\* board; and it returns no move when no matching opening has such a
\* follow-up.
C16_FollowUpAtPlyCount ==
    libCall.op = "getOpeningMove" =>
        /\ libCall.out # Null =>
              \E n \in 1..Len(CLASSIC_OPENINGS) :
                  /\ LegalFollowUp(n, libCall.moveCount)
                  /\ libCall.out = CLASSIC_OPENINGS[n].followUp[libCall.moveCount + 1]
        /\ libCall.out = Null =>
              \A n \in 1..Len(CLASSIC_OPENINGS) : ~LegalFollowUp(n, libCall.moveCount)

\* C16: with no stone on the board getOpeningMove returns the centre (7, 7).
\* Otherwise the move it returns is the follow-up of an opening that matches
\* the board, at the index that is the ply count or, from ply count 4 on, the
\* last index 3, and is an empty cell of the board; it returns no move
\* exactly when no matching opening has an empty cell at that index.
C16_FollowUpAtClampedIndex ==
    libCall.op = "getOpeningMove" =>
        IF libCall.moveCount = 0 THEN libCall.out = Mv(7, 7)
        ELSE /\ libCall.out # Null =>
                  /\ isValidMove(libBoard, libCall.out.row, libCall.out.col)
                  /\ \E n \in 1..Len(CLASSIC_OPENINGS) :
                        /\ LegalFollowUp(n, ClampedIndex(n))
                        /\ libCall.out = CLASSIC_OPENINGS[n].followUp[ClampedIndex(n) + 1]
             /\ libCall.out = Null =>
                  \A n \in 1..Len(CLASSIC_OPENINGS) : ~LegalFollowUp(n, ClampedIndex(n))

\* a call with five stones or more on the board returned a follow-up, the
\* one of the last index, of an opening after the first
C16_Witness ==
    /\ libCall.op = "getOpeningMove"
    /\ libCall.moveCount >= 5
    /\ libCall.out # Null
    /\ libCall.out # CLASSIC_OPENINGS[1].followUp[4]

-----------------------------------------------------------------------------
(***************************************************************************)
(* Properties of one call of analyzeThreats.                               *)
(***************************************************************************)

\* the per-cell score ThreatAnalysis.evaluatePosition gives the critical cell
\* m for a side
RawScore(m, side) == threatEvaluatePosition(libBoard, m.row, m.col, side).score

\* the critical cells the call returned
Critical == libCall.out.criticalMoves

-----------------------------------------------------------------------------
(***************************************************************************)
(* Properties of the trainer's log and statistics.                         *)
(***************************************************************************)

\* C18: whatever was loaded, run, imported or reset, the log of the trainer
\* holds at most 1000 records.
C18_LogWithinRetention == Len(trainingGames) <= 1000

\* a run that ends on a log of 1000 records or more drops the oldest record
\* and appends its game
FullLogEvicts ==
    [][lastOp' = "run" /\ trainingGames' # trainingGames /\ Len(trainingGames) >= 1000
          => /\ Len(trainingGames') = Len(trainingGames)
             /\ SubSeq(trainingGames', 1, Len(trainingGames) - 1) = Tail(trainingGames)]_vars

\* What the statistics of a log are when they are computed from it: the
\* share of Black's wins and the mean number of moves in its last 100 games,
\* and the number of distinct tags of its decided games.
LastHundred(log) == {i \in DOMAIN log : i > Len(log) - 100}

\* the moves of the games of a log after its first so many
RECURSIVE PliesAfter(_, _)
PliesAfter(log, n) == IF n >= Len(log) THEN 0 ELSE log[n + 1].plies + PliesAfter(log, n + 1)

SameQuotient(p, q) == p[1] * q[2] = q[1] * p[2]

ComputedFrom(log, st) ==
    /\ SameQuotient(st.winRate,
                    << Cardinality({i \in LastHundred(log) : log[i].winner = 1}),
                       Cardinality(LastHundred(log)) >>)
    /\ SameQuotient(st.averageGameLength,
                    << PliesAfter(log, Max(0, Len(log) - 100)),
                       Cardinality(LastHundred(log)) >>)
    /\ st.learnedPatterns =
          Cardinality({t \in {"opening", "midgame_5"} :
                          \E i \in DOMAIN log : log[i].winner # 0 /\ t \in log[i].patterns})

\* the trainer has just been constructed over a log that parses and
\* statistics that do not
LoadedOverCorruptStats ==
    /\ lastOp = "load"
    /\ loadedFrom.games.kind = "value"
    /\ loadedFrom.stats.kind = "corrupt"

SameLogAsBefore ==
    /\ priorSession.kind = "value"
    /\ priorSession.value.trainingGames = trainingGames

-----------------------------------------------------------------------------
(***************************************************************************)
(* Properties of the attack step of getNextMove.                           *)
(***************************************************************************)

\* a stone lies within two rows and two columns of the cell
NearStone(b, row, col) ==
    \E r \in Idx, c \in Idx :
        /\ r - row \in (-2)..2
        /\ c - col \in (-2)..2
        /\ b[r][c] # 0

\* the call returned from the attack step
AttackReturned == Returned /\ rule = "attack" /\ result # Null

\* C21 as claimed: a move the attack step returns is an empty cell with a
\* stone within two rows and two columns of it.
C21_AttackMoveNearStone ==
    AttackReturned =>
        /\ isValidMove(inBoard, result.row, result.col)
        /\ NearStone(inBoard, result.row, result.col)

\* C21: a move the attack step returns is an empty cell of the board whose
\* score is the greatest of all empty cells, near a stone or not, and the
\* first such cell by rows and columns.
C21_AttackMoveBestOfAllEmpty ==
    AttackReturned =>
        /\ isValidMove(inBoard, result.row, result.col)
        /\ \A r \in Idx, c \in Idx :
              isValidMove(inBoard, r, c) =>
                  IF r < result.row \/ (r = result.row /\ c < result.col)
                  THEN evaluatePosition(inBoard, r, c, aiPlayer)
                           < evaluatePosition(inBoard, result.row, result.col, aiPlayer)
                  ELSE evaluatePosition(inBoard, r, c, aiPlayer)
                           <= evaluatePosition(inBoard, result.row, result.col, aiPlayer)

\* the attack step answers a lone stone in a corner with the centre
C21_Witness ==
    /\ AttackReturned
    /\ ~isEmptyBoard(inBoard)
    /\ ~NearStone(inBoard, result.row, result.col)
    /\ result = Mv(7, 7)

-----------------------------------------------------------------------------
(***************************************************************************)
(* Properties of the evaluation cache over several calls.                  *)
(***************************************************************************)

\* what the call that returned returns on an engine that never made a call
FreshOutcome ==
    IF entry = "getBestMove"
    THEN getBestMoveOutcome(inBoard, aiPlayer, difficulty, << >>)
    ELSE alphaBetaSearch(inBoard, aiPlayer, maxDepthOf(difficulty), << >>)

\* C22: a call on an engine that has made a call before reads nothing the
\* earlier call memoized: it returns the move and computes the score it
\* returns and computes on an engine that made no call before.
C22_CacheNotReadByLaterCall ==
    (pc = "done" /\ calls > 1) =>
        /\ result = FreshOutcome.move
        /\ bestScore = FreshOutcome.bestScore

-----------------------------------------------------------------------------
(***************************************************************************)
(* Properties of the plies of a self-play game.                            *)
(***************************************************************************)

\* the stones on a board
StonesOn(b) == Cardinality({cell \in Idx \X Idx : b[cell[1]][cell[2]] # 0})

\* C23: after k plies of a self-play game the board holds k stones and k
\* moves are recorded; the recorded moves address cells of the board, no two
\* the same cell, and the cell of ply i (from 0) holds a black stone when i
\* is even and a white stone when i is odd.
C23_OneStonePerPly ==
    /\ Len(moves) = moveCount
    /\ StonesOn(gameBoard) = moveCount
    /\ \A k \in DOMAIN moves :
          /\ InRange(moves[k].row, moves[k].col)
          /\ gameBoard[moves[k].row][moves[k].col] = IF (k - 1) % 2 = 0 THEN 1 ELSE 2
    /\ \A k \in DOMAIN moves, j \in DOMAIN moves : moves[k] = moves[j] => k = j

\* a game of more than twenty plies that a side has won
C23_Witness ==
    /\ gamePc = "returned"
    /\ moveCount > 20
    /\ winner \in {1, 2}
    /\ StonesOn(gameBoard) = moveCount

\* the side of the k-th recorded move, and the last recorded move
SideOfPly(k) == IF k % 2 = 1 THEN 1 ELSE 2

LastMove == moves[Len(moves)]

\* a line of five runs through a stone placed before the last one, on the
\* board without the last stone
FiveBeforeLastPly ==
    \E k \in 1..(Len(moves) - 1) :
        FiveThrough([gameBoard EXCEPT ![LastMove.row][LastMove.col] = 0],
                    moves[k].row, moves[k].col, SideOfPly(k))

\* C24: a game that has returned records Black, White or a draw as its
\* outcome.  A side is recorded as winner only when it played the last ply,
\* that ply completed a line of five and no line of five was on the board
\* before it; a draw is recorded only on a full board; and while no outcome
\* is recorded no line of five is on the board.
C24_TerminalOutcome ==
    /\ gamePc = "returned" => winner \in {1, 2, 3}
    /\ winner \in {1, 2} =>
          /\ moves # << >>
          /\ winner = SideOfPly(Len(moves))
          /\ FiveThrough(gameBoard, LastMove.row, LastMove.col, winner)
          /\ ~FiveBeforeLastPly
    /\ winner = 3 => isBoardFull(gameBoard)
    /\ winner = 0 =>
          \A k \in DOMAIN moves :
              ~FiveThrough(gameBoard, moves[k].row, moves[k].col, SideOfPly(k))

\* a game Black has won with its last ply, the first to complete a five
C24_Witness ==
    /\ gamePc = "returned"
    /\ winner = 1
    /\ SideOfPly(Len(moves)) = 1
    /\ FiveThrough(gameBoard, LastMove.row, LastMove.col, 1)
    /\ ~FiveBeforeLastPly

-----------------------------------------------------------------------------
(***************************************************************************)
(* Properties of stopping the trainer and of a run that fails.             *)
(***************************************************************************)

\* C25: while the trainer is stopped, that is from the return of
\* stopBackgroundTraining to the next call of startBackgroundTraining, no
\* run begins and the log and the statistics do not change.
C25_StopIsClean ==
    [][(~trainInterval /\ ~trainInterval')
          => /\ begun' = begun
             /\ trainingGames' = trainingGames
             /\ stats' = stats]_vars

\* C26: a run that ends by an error ends like any other: whenever a run
\* ends the guard isTraining is released, the guard is set only while a run
\* is in progress, and a run in progress ends, so that a timer that fires
\* later finds the guard released.
C26_FailedRunRecovered ==
    /\ [](isTraining <=> Len(runs) > 0)
    /\ [][Len(runs') < Len(runs) => ~isTraining']_vars
    /\ [](lastOp = "runFailed" => (isTraining ~> ~isTraining))
    /\ (isTraining ~> ~isTraining)

\* after a run that failed a timer has started another run
C26_Witness ==
    /\ lastOp = "runFailed"
    /\ begun >= 2
    /\ isTraining
    /\ lastTrigger = "started"

-----------------------------------------------------------------------------
(***************************************************************************)
(* Properties of what getBestMove returns.                                 *)
(***************************************************************************)

\* the board has an empty cell with a stone within two rows and two columns
HasCandidate(b) ==
    \E r \in Idx, c \in Idx : b[r][c] = 0 /\ NearStone(b, r, c)

\* C27: getBestMove returns a move whenever the board it is given has an
\* empty cell with a stone within two rows and two columns of it.
C27_BestMoveNotNull ==
    (pc = "done" /\ entry = "getBestMove" /\ HasCandidate(inBoard)) => result # Null

-----------------------------------------------------------------------------
(***************************************************************************)
(* Properties of the rank analyzeThreats gives a winning cell.             *)
(***************************************************************************)

\* the empty cells of the board at which a side completes a line of five
WinningCells ==
    {cell \in Idx \X Idx :
        \E side \in {1, 2} : CompletesFive(libBoard, cell[1], cell[2], side)}

\* C28: every empty cell at which a side completes a line of five is among
\* the critical cells analyzeThreats returns, with threat level 5, and no
\* cell of a lower threat level stands before it.
C28_WinningCellRankedFirst ==
    libCall.op = "analyzeThreats" =>
        \A cell \in WinningCells :
            \E i \in DOMAIN Critical :
                /\ Critical[i].row = cell[1] /\ Critical[i].col = cell[2]
                /\ Critical[i].priority = 5
                /\ \A j \in 1..(i - 1) : Critical[j].priority >= 5

\* a call on a board with a winning cell for each side
C28_Witness ==
    /\ libCall.op = "analyzeThreats"
    /\ \E cell \in WinningCells : CompletesFive(libBoard, cell[1], cell[2], 1)
    /\ \E cell \in WinningCells : CompletesFive(libBoard, cell[1], cell[2], 2)
    /\ \E i \in DOMAIN Critical : Critical[i].priority = 5

-----------------------------------------------------------------------------
(***************************************************************************)
(* Properties of the statistics a completed run leaves in localStorage.    *)
(***************************************************************************)

\* C29: after a completed self-play run the statistics item of localStorage
\* holds the statistics getTrainingStats returns, the count of games played
\* included.
C29_SavedStatsAreCurrent ==
    lastOp = "run" => storage.stats = parsed(stats)

\* what a completed run does leave: the statistics of the trainer with the
\* count of games played as it was before the run was counted
SavedStatsOneBehind ==
    lastOp = "run" =>
        storage.stats = parsed([stats EXCEPT !.gamesPlayed = @ - 1])

-----------------------------------------------------------------------------
(***************************************************************************)
(* The local game of the game component: clicks on the board, undo,        *)
(* restart and the switch of the AI opponent.  handleMove is also what the *)
(* timer of the AI opponent calls, with the cell the engine chose.         *)
(***************************************************************************)

\* the cells Black clicks at and the cells White clicks at
BlackClicks == {Mv(7, c) : c \in 3..7}
WhiteClicks == {Mv(9, c) : c \in 3..6}

clicksOf(player) == IF player = 1 THEN BlackClicks ELSE WhiteClicks

\* the winner handleMove's updater finds after the stone on (row, col)
winnerOfMove(newBoard, row, col, player) ==
    IF checkWin(newBoard, row, col, player) THEN player
    ELSE IF isBoardFull(newBoard) THEN 3
    ELSE 0

\* the state handleMove's updater returns for prevState
movedState(prevState, row, col) ==
    [board |-> makeMove(prevState.board, row, col, prevState.currentPlayer),
     currentPlayer |->
        IF winnerOfMove(makeMove(prevState.board, row, col, prevState.currentPlayer),
                        row, col, prevState.currentPlayer) = 0
        THEN getNextPlayer(prevState.currentPlayer)
        ELSE prevState.currentPlayer,
     winner |-> winnerOfMove(makeMove(prevState.board, row, col, prevState.currentPlayer),
                             row, col, prevState.currentPlayer),
     history |-> Append(prevState.history,
                        [board |-> cloneBoard(prevState.board),
                         currentPlayer |-> prevState.currentPlayer])]

\* two steps whatever the switch of the AI opponent
stepsToUndoAlwaysTwo(enabled, past) == IF Len(past) >= 2 THEN 2 ELSE 1

\* stepsToUndo of handleUndo's updater
stepsToUndo(enabled, past) == IF enabled /\ Len(past) >= 2 THEN 2 ELSE 1

\* the state handleUndo's updater returns for prevState; targetIndex counts
\* from 0
undoneState(prevState, enabled) ==
    LET targetIndex == Max(0, Len(prevState.history) - stepsToUndo(enabled, prevState.history))
        previousState ==
            IF targetIndex < Len(prevState.history)
            THEN prevState.history[targetIndex + 1]
            ELSE [board |-> createEmptyBoard, currentPlayer |-> 1]
    IN  [board |-> previousState.board,
         currentPlayer |-> previousState.currentPlayer,
         winner |-> 0,
         history |-> SubSeq(prevState.history, 1, targetIndex)]

\* handleMove(row, col): a click on a finished game or on an occupied cell
\* changes nothing
handleMove ==
    \E cell \in clicksOf(gameState.currentPlayer) :
        IF gameState.winner # 0 \/ gameState.board[cell.row][cell.col] # 0
        THEN UNCHANGED vars
        ELSE /\ gameState' = movedState(gameState, cell.row, cell.col)
             /\ uiOp' = "move"
             /\ beforeMove' = gameState
             /\ UNCHANGED aiEnabled
             /\ UNCHANGED << engineVars, winVars, gameVars, trainerVars, callVars >>

\* handleUndo()
handleUndo ==
    /\ Len(gameState.history) # 0
    /\ gameState' = undoneState(gameState, aiEnabled)
    /\ uiOp' = IF uiOp = "move" THEN "undo" ELSE "none"
    /\ beforeMove' = IF uiOp = "move" THEN beforeMove ELSE createInitialState
    /\ UNCHANGED aiEnabled
    /\ UNCHANGED << engineVars, winVars, gameVars, trainerVars, callVars >>

\* handleRestart()
handleRestart ==
    /\ gameState' = createInitialState
    /\ uiOp' = "none"
    /\ beforeMove' = createInitialState
    /\ UNCHANGED aiEnabled
    /\ UNCHANGED << engineVars, winVars, gameVars, trainerVars, callVars >>

\* handleAIToggle(enabled)
handleAIToggle ==
    /\ \E enabled \in BOOLEAN : aiEnabled' = enabled
    /\ uiOp' = "none"
    /\ beforeMove' = createInitialState
    /\ UNCHANGED gameState
    /\ UNCHANGED << engineVars, winVars, gameVars, trainerVars, callVars >>

LocalInit == UiIdle /\ EngineIdle /\ WinIdle /\ GameIdle /\ TrainerInit /\ CallIdle

LocalNext ==
    \/ handleMove
    \/ handleUndo
    \/ handleRestart
    \/ handleAIToggle

SpecLocal == LocalInit /\ [][LocalNext]_vars

\* C30: with the AI opponent off, an undo right after an accepted move leaves
\* the game state the move was made in: the same board cell for cell, the
\* same side to move, a history of the length it had, and no winner.
C30_UndoRestoresState ==
    (uiOp = "undo" /\ ~aiEnabled) =>
        /\ \A r \in Idx : \A c \in Idx :
               gameState.board[r][c] = beforeMove.board[r][c]
        /\ gameState.currentPlayer = beforeMove.currentPlayer
        /\ Len(gameState.history) = Len(beforeMove.history)
        /\ gameState.history = beforeMove.history
        /\ gameState.winner = 0

\* the undo of Black's winning move, the ninth stone of the game
C30_Witness ==
    /\ uiOp = "undo" /\ ~aiEnabled
    /\ Len(gameState.history) = 8
    /\ gameState.currentPlayer = 1
    /\ \E cell \in BlackClicks : CompletesFive(gameState.board, cell.row, cell.col, 1)

\* with the AI opponent on, the same undo goes back two moves
UndoWithAITakesTwo ==
    (uiOp = "undo" /\ aiEnabled /\ Len(beforeMove.history) >= 1) =>
        Len(gameState.history) = Len(beforeMove.history) - 1

====
